---- MODULE Spec2Model ----
(***************************************************************************)
(* Model of the semantic-search route (src/app/api/search/route.ts and its *)
(* tutorial variant in src/unnamed/part_023): the module-level vectorStore *)
(* singleton, initVectorStore (load PDFs -> split -> embed -> index) and   *)
(* the POST handler (init -> parse body -> similaritySearch -> SSE stream).*)
(* Every await of the handlers is a point where another request may run.   *)
(***************************************************************************)
EXTENDS Integers, Sequences, FiniteSets, TLC

\* ---------------------------------------------------------------- bounds
MaxReq == 2            \* number of POST requests the process receives
EmbedBatch == 2        \* chunks per embedding request (scaled batch size)
MaxParagraphs == 3     \* paragraphs of a text handed to the splitter
MaxParagraphLen == 4   \* characters of a paragraph (scaled)
MaxChunkSize == 4      \* chunkSize of a splitter (scaled)
MaxEntries == 3        \* entries added to a vector index
MaxK == 4              \* largest limit k of a query
MaxRun == 2            \* calls of runSimpleGraph
MaxSession == 2        \* chat sessions open against the server
MaxTurn == 2           \* prompts a chat session sends
MaxUuid == 2           \* values uuidv4() may return (scaled)
MaxStep == 3           \* actions the agent plans in one run
MaxSubmit == 3         \* requests a page starts
MaxInner == 4          \* chunks of the stream enhanceStream reads
MaxChat == 2           \* calls of AdvancedAgent.chat
MaxClock == 4          \* last value of Date.now() (scaled ms)
RateLimit == 2         \* requests per window: 60 in the code (scaled)
RateWindow == 3        \* ms of the window: 60000 in the code (scaled)
MAX_SIZE == 2          \* CompressedMemory.MAX_SIZE: 1000 in the code (scaled)
MaxStore == 3          \* calls of CompressedMemory.store

\* ------------------------------------------------------ program constants
CHUNK_SIZE == 1000
CHUNK_OVERLAP == 200
DefaultK == 4
\* Length of the paragraph separator "\n\n", the first of the separators.
SEPARATOR_LEN == 2

Reqs == 1..MaxReq
NULL == 0

RETRY_COUNT == 3       \* AdvancedAgent.retryCount
DELAY_UNIT == 1000     \* ms of delay per failed attempt

\* ------------------------------------------------------------ input sets
\* A file of public/cv: name extension, text length and subject of its text.
File(n, e, l, t) == [name |-> n, ext |-> e, len |-> l, topic |-> t]

\* The directories the process may be started on.
Directories ==
  { << File("notes", "txt", 300, "d") >>,
    << File("a", "pdf", 700, "d"), File("readme", "txt", 50, "c"),
       File("a2", "pdf", 700, "d"), File("b", "pdf", 2600, "c") >> }

\* Query texts as character sequences: empty, whitespace-only, and two words.
Queries == { << >>, <<" ">>, <<"d">>, <<"c">> }

\* Request bodies: unparsable JSON, JSON without a query, JSON with a query.
Body(p, h, q) == [parses |-> p, hasQuery |-> h, query |-> q]
Bodies == { Body(FALSE, FALSE, << >>), Body(TRUE, FALSE, << >>) }
            \cup { Body(TRUE, TRUE, q) : q \in Queries }

VARIABLES
  variant,      \* "route" (route.ts) or "tutorial" (part_023: try/catch)
  directory,    \* content of public/cv
  vectorStore,  \* module-level singleton: NULL or a reference to a store
  stores,       \* heap of MemoryVectorStore objects, one slot per request
  pc,           \* position of each request in POST / initVectorStore
  body,         \* the JSON body of each request, as req.json() reads it
  docs,         \* initVectorStore: allDocs
  splits,       \* initVectorStore: splits
  embedded,     \* addDocuments: number of chunks embedded so far
  store,        \* POST: const store
  searchResults,\* POST: const searchResults
  response,     \* what the request returned
  embedCalls,   \* embedding-service calls made while serving the request
  ranPass,      \* "no", or the indexing pass the request started: "first"
                \* or, when started after a call had thrown, "retry"
  initThrew,    \* some call of initVectorStore has thrown
  firstStore    \* the store of the first call of initVectorStore that
                \* completed an indexing pass, NULL before

vars == << variant, directory, vectorStore, stores, pc, body, docs, splits,
           embedded, store, searchResults, response, embedCalls, ranPass,
           initThrew, firstStore >>

\* One search response and the client that fetched it.
VARIABLES
  toStream,     \* POST: the searchResults handed to the stream
  sink,         \* POST: const stream
  delivered,    \* chunks the client's reader has read so far
  consumer      \* "attached", or "gone" once the client stopped reading

streamVars == << toStream, sink, delivered, consumer >>

\* One call of the text splitter.
VARIABLES
  paragraphs,   \* the text: lengths of its paragraphs, "\n\n" between them
  chunkSize,    \* the splitter's chunkSize
  chunkOverlap, \* the splitter's chunkOverlap
  output,       \* the chunks returned, as [from, to) offsets into the text
  splitDone     \* the call has returned

chunkerVars == << paragraphs, chunkSize, chunkOverlap, output, splitDone >>

\* One vector index and the last query made against it.
VARIABLES
  index,        \* the entries of the index, in insertion order
  asked,        \* the text of the last query
  limit,        \* the k of the last query
  found,        \* the documents the last query returned
  queried       \* a query has been made

indexVars == << index, asked, limit, found, queried >>

\* The calls of runSimpleGraph (basic-graph.ts), each with its own graph
\* run and its own stream.
VARIABLES
  graphPc,      \* the node the graph run is about to execute
  graphState,   \* the run's state.graphState, as a sequence of words
  visited,      \* the nodes the run has executed, in order
  updates,      \* the chunks the graph stream has yielded
  consumed,     \* how many of them the for-await loop has taken
  uiStream,     \* the ReadableStream returned to the UI
  startPc       \* start(controller): "none", "loop" or "done"

graphVars == << graphPc, graphState, visited, updates, consumed, uiStream,
                startPc >>

\* The chat server action (chatWithMemory, chatWithAgent) and the chat
\* sessions that call it.
VARIABLES
  serverAction, \* the action the chat page calls
  threadId,     \* config.configurable.thread_id of the action's module
  checkpoints,  \* the MemorySaver: the saved messages of each thread
  chatPc,       \* position of each session's call: "idle" or "model"
  chatState,    \* the messages of the graph run each call started
  usedThread,   \* the thread_id each session's last call ran under
  turns,        \* prompts each session has sent
  modelInputs   \* what the model received: session and message list

chatVars == << serverAction, threadId, checkpoints, chatPc, chatState,
               usedThread, turns, modelInputs >>

\* The plan-and-execute agent (plan-and-execute-graph.ts). Step objects
\* live in objects; an array of steps is a sequence of references to them,
\* so that two arrays may hold the same object.
VARIABLES
  agentPc,      \* "off", or the node to run next: "plan", "execute", "end"
  objects,      \* the step objects {action, result} allocated by the run
  agentState,   \* the graph state: task, toolResults, steps, finalAnswer,
                \*   isComplete
  lastNode,     \* the node that returned last, "none" before the first
  received,     \* state.steps of the state that node received
  before,       \* the contents of received's step objects before the call
  returned,     \* the partial state that node returned
  agentUpdates, \* the chunks the workflow stream has yielded
  agentTaken,   \* how many of them the for-await loop has taken
  agentStream,  \* the ReadableStream runAgent returned
  agentStartPc, \* start(controller): "none", "loop", "done" or "caught"
  agentRead     \* how many chunks the stream's reader has read

agentVars == << agentPc, objects, agentState, lastNode, received, before,
                returned, agentUpdates, agentTaken, agentStream,
                agentStartPc, agentRead >>

\* The streaming chat page (part_021) and search page (part_023).
VARIABLES
  page,           \* which page is mounted: "chat" or "search"
  inputValue,     \* useState(''): the text of the input
  isStreaming,    \* useState(false)
  shownStreaming, \* isStreaming of the last render: what handleSubmit's
                  \*   closure and the disabled attributes hold
  requests,       \* the requests started: "none", "awaiting", "reading",
                  \*   "ok" or "error"
  submitted       \* how many requests handleSubmit has started

pageVars == << page, inputValue, isStreaming, shownStreaming, requests,
               submitted >>

\* The body of one search response on its way to the search page.
VARIABLES
  sseEvents,    \* the events the POST handler enqueued
  wire,         \* the characters of the body no read has returned yet
  searchParsed, \* searchResults of handleSubmit
  cutInside,    \* whether a read has ended inside an event
  readerPc      \* the reader loop: "reading" or "done"

sseVars == << sseEvents, wire, searchParsed, cutInside, readerPc >>

\* CompleteAgent.enhanceStream (08_first_agent_solutions.md): the stream it
\* reads and the stream it returns.
VARIABLES
  innerChunks,  \* chunks the inner stream still has to yield
  innerThrows,  \* whether reading the inner stream throws after them
  enhanced,     \* the ReadableStream enhanceStream returned
  enhancePc,    \* start(controller): "loop" or "done"
  enhancedRead  \* how many chunks the reader of enhanced has read

enhanceVars == << innerChunks, innerThrows, enhanced, enhancePc,
                  enhancedRead >>

\* AdvancedAgent.chat (08_first_agent_solutions.md): one call at a time.
VARIABLES
  chats,        \* calls of chat made so far
  attempts,     \* let attempts = 0 of the call
  retryPc,      \* "idle", "try", "delay", "returned" or "threw"
  attemptLog,   \* the outcome of every super.chat of the call, in order
  waits,        \* the delays of the call, in ms, in order
  chatResult    \* what the call returned or threw

retryVars == << chats, attempts, retryPc, attemptLog, waits, chatResult >>

\* The rate limiter of optimizedChat (part_019).
VARIABLES
  clock,        \* Date.now()
  rateLimiter,  \* the Map: the recent request times kept for each user
  accepted,     \* every time at which a request of a user was accepted
  lastCheck     \* the last call of checkRateLimit and what it returned

limiterVars == << clock, rateLimiter, accepted, lastCheck >>

\* A CompressedMemory (part_019).
VARIABLES
  memory,       \* the Map, as its entries << key, compressed >> in the
                \*   order of keys()
  storing,      \* the calls of store that await compress
  storeCalls,   \* calls of store made so far
  insertedAt,   \* for each key of the Map, which set() inserted it
  lastStored    \* the call of store that returned last

memoryVars == << memory, storing, storeCalls, insertedAt, lastStored >>


\* ------------------------------------------------------- pure operations
Min(a, b) == IF a < b THEN a ELSE b

\* The listing taken without the filter.
PdfFilesUnfiltered(files) == files

\* files.filter(file => file.endsWith('.pdf'))
RECURSIVE PdfFiles(_)
PdfFiles(files) ==
  IF files = << >> THEN << >>
  ELSE IF Head(files).ext = "pdf"
       THEN << Head(files) >> \o PdfFiles(Tail(files))
       ELSE PdfFiles(Tail(files))

\* new PDFLoader(path).load(): the text of one file with its source.
LoadPdf(f) ==
  [ pageContent |-> [topic |-> f.topic, from |-> 0, to |-> f.len],
    metadata |-> [source |-> f.name] ]

\* (await Promise.all(loaders.map(loader => loader.load()))).flat()
LoadAll(pdfs) == [i \in 1..Len(pdfs) |-> LoadPdf(pdfs[i])]

\* The chunker: windows of at most m characters, the cursor advancing by
\* m - o, the last window clipped to the end of the text.
RECURSIVE SplitFrom(_, _, _, _, _)
SplitFrom(doc, cursor, m, o, fuel) ==
  LET text == doc.pageContent
      stop == Min(cursor + m, text.to)
      chunk == [ pageContent |-> [topic |-> text.topic, from |-> cursor,
                                  to |-> stop],
                 metadata |-> doc.metadata ]
  IN IF stop >= text.to \/ fuel = 0 THEN << chunk >>
     ELSE << chunk >> \o SplitFrom(doc, cursor + (m - o), m, o, fuel - 1)

SplitText(doc, m, o) ==
  SplitFrom(doc, doc.pageContent.from, m, o,
            doc.pageContent.to - doc.pageContent.from)

\* splitter.splitDocuments(allDocs): the chunks of every document, in order.
RECURSIVE SplitDocuments(_)
SplitDocuments(ds) ==
  IF ds = << >> THEN << >>
  ELSE SplitText(Head(ds), CHUNK_SIZE, CHUNK_OVERLAP)
         \o SplitDocuments(Tail(ds))

\* The embedding service, as a deterministic map from text to a vector.
CharVec(c) == IF c = "d" THEN << 2, 0 >>
              ELSE IF c = "c" THEN << 0, 2 >> ELSE << 0, 0 >>

RECURSIVE EmbedQuery(_)
EmbedQuery(q) ==
  IF q = << >> THEN << 1, 1 >>
  ELSE LET rest == EmbedQuery(Tail(q))
           v == CharVec(Head(q))
       IN << rest[1] + v[1], rest[2] + v[2] >>

EmbedChunk(doc) ==
  LET v == CharVec(doc.pageContent.topic) IN << 1 + v[1], 1 + v[2] >>

\* embeddings.embedDocuments(texts): one vector per text, in order.
EmbedDocuments(ds) == [i \in 1..Len(ds) |-> EmbedChunk(ds[i])]

\* store.addVectors(vectors, documents): appends one entry per document.
AddVectors(memoryVectors, vectors, ds) ==
  memoryVectors \o [i \in 1..Len(ds) |->
                      [embedding |-> vectors[i], document |-> ds[i]]]

Dot(a, b) == a[1] * b[1] + a[2] * b[2]

\* cosine(q, a) > cosine(q, b), for vectors with non-negative components.
CloserThan(q, a, b) ==
  Dot(q, a) * Dot(q, a) * Dot(b, b) > Dot(q, b) * Dot(q, b) * Dot(a, a)

\* The same insertion with an entry going before the entries of equal
\* similarity.
RECURSIVE InsertRankedTiesFirst(_, _, _)
InsertRankedTiesFirst(q, ranked, e) ==
  IF ranked = << >> THEN << e >>
  ELSE IF ~CloserThan(q, Head(ranked).embedding, e.embedding)
       THEN << e >> \o ranked
       ELSE << Head(ranked) >> \o InsertRankedTiesFirst(q, Tail(ranked), e)

\* Insertion into a ranking that is sorted by descending similarity; an
\* entry goes behind the entries of equal similarity that came before it.
RECURSIVE InsertRanked(_, _, _)
InsertRanked(q, ranked, e) ==
  IF ranked = << >> THEN << e >>
  ELSE IF CloserThan(q, e.embedding, Head(ranked).embedding)
       THEN << e >> \o ranked
       ELSE << Head(ranked) >> \o InsertRanked(q, Tail(ranked), e)

RECURSIVE Ranked(_, _)
Ranked(q, memoryVectors) ==
  IF memoryVectors = << >> THEN << >>
  ELSE InsertRanked(q, Ranked(q, SubSeq(memoryVectors, 1,
                                        Len(memoryVectors) - 1)),
                    memoryVectors[Len(memoryVectors)])

\* store.similaritySearch(query): the documents of the k closest entries.
SimilaritySearch(memoryVectors, query, k) ==
  LET r == Ranked(EmbedQuery(query), memoryVectors)
  IN [i \in 1..Min(k, Len(r)) |-> r[i].document]

\* !query : undefined and the empty string are falsy.
Falsy(b) == ~b.hasQuery \/ Len(b.query) = 0

\* ------------------------------------------------------------ the stream
\* queue: the chunks enqueued; state: "readable", "closed" or "errored";
\* ops: every call made on the controller, in order.
NoStream == [queue |-> << >>, state |-> "none", ops |-> << >>]
NewStream == [queue |-> << >>, state |-> "readable", ops |-> << >>]

\* `data: ${JSON.stringify(result)}\n\n`
SseEvent(result) ==
  << "data: ",
     [pageContent |-> result.pageContent, metadata |-> result.metadata],
     "\n\n" >>

\* controller.enqueue(chunk) / controller.close()
Enqueue(s, chunk) ==
  IF s.state = "readable"
  THEN [s EXCEPT !.queue = Append(@, chunk), !.ops = Append(@, "enqueue")]
  ELSE [s EXCEPT !.ops = Append(@, "enqueue")]
Close(s) ==
  IF s.state = "readable"
  THEN [s EXCEPT !.state = "closed", !.ops = Append(@, "close")]
  ELSE [s EXCEPT !.ops = Append(@, "close")]

\* controller.error(e): a readable stream becomes errored and the chunks
\* of its queue that no read has taken (all but the first `read`) are
\* dropped; on a stream that is not readable the call does nothing.
Error(s, read) ==
  IF s.state = "readable"
  THEN [s EXCEPT !.queue = SubSeq(@, 1, read), !.state = "errored",
                 !.ops = Append(@, "error")]
  ELSE [s EXCEPT !.ops = Append(@, "error")]

RECURSIVE EnqueueAll(_, _)
EnqueueAll(s, results) ==
  IF results = << >> THEN s
  ELSE EnqueueAll(Enqueue(s, SseEvent(Head(results))), Tail(results))

\* A start() that walks the results from the last to the first.
RECURSIVE EnqueueAllReversed(_, _)
EnqueueAllReversed(s, results) ==
  IF results = << >> THEN s
  ELSE EnqueueAllReversed(
         Enqueue(s, SseEvent(results[Len(results)])),
         SubSeq(results, 1, Len(results) - 1))

StreamStartReversed(results) == Close(EnqueueAllReversed(NewStream, results))

\* start(controller) without the call of controller.close().
StreamStartNoClose(results) == EnqueueAll(NewStream, results)

\* start(controller) with controller.close() called before the loop.
StreamStartCloseFirst(results) == EnqueueAll(Close(NewStream), results)

\* start(controller) { searchResults.forEach(enqueue); controller.close() }
StreamStart(results) == Close(EnqueueAll(NewStream, results))

\* ------------------------------------------------------------- responses
NoResponse == [kind |-> "none", status |-> 0, text |-> "", stream |-> NoStream]
MissingQuery ==
  [kind |-> "response", status |-> 400, text |-> "Missing query",
   stream |-> NoStream]
StreamResponse(s) ==
  [kind |-> "response", status |-> 200, text |-> "", stream |-> s]

\* A handler that swallows the exception and answers an empty stream.
ErrorResponseSwallowed(v) == StreamResponse(Close(NewStream))

\* An exception leaving POST: route.ts lets it escape the handler, the
\* tutorial variant catches it and answers 500.
ErrorResponse(v) ==
  IF v = "tutorial"
  THEN [kind |-> "response", status |-> 500,
        text |-> "Internal server error", stream |-> NoStream]
  ELSE [kind |-> "throw", status |-> 0, text |-> "", stream |-> NoStream]

\* ------------------------------------------------------------- the store
NoStore == [exists |-> FALSE, memoryVectors |-> << >>]
\* new MemoryVectorStore(embeddings)
NewStore == [exists |-> TRUE, memoryVectors |-> << >>]

\* One store object shared by every pass.
PassStoreShared(r) == 1

\* The store object a pass creates and fills: its own local `store`.
PassStore(r) == r

\* `vectorStore = store` moved before `await store.addDocuments(splits)`.
AssignVectorStoreEarly(step, cur, s) ==
  IF step \in {"create", "addDocuments"} THEN s ELSE cur

\* The store under construction assigned in the failure path as well.
AssignVectorStoreOnThrow(step, cur, s) ==
  IF step \in {"throw", "addDocuments"} THEN s ELSE cur

\* A failing query that resets the singleton.
AssignVectorStoreResetOnQueryFail(step, cur, s) ==
  IF step = "addDocuments" THEN s
  ELSE IF step = "queryFail" THEN NULL ELSE cur

\* The value of the module-level vectorStore after a step of the program:
\* the only assignment is `vectorStore = store` after addDocuments resolved.
AssignVectorStore(step, cur, s) ==
  IF step = "addDocuments" THEN s ELSE cur

\* ------------------------------------------------------ parts not in use
\* The search route while no request has been received.
RouteIdle ==
  /\ variant = "route"
  /\ directory = << >>
  /\ vectorStore = NULL
  /\ stores = [r \in Reqs |-> NoStore]
  /\ pc = [r \in Reqs |-> "idle"]
  /\ body = [r \in Reqs |-> Body(FALSE, FALSE, << >>)]
  /\ docs = [r \in Reqs |-> << >>]
  /\ splits = [r \in Reqs |-> << >>]
  /\ embedded = [r \in Reqs |-> 0]
  /\ store = [r \in Reqs |-> NULL]
  /\ searchResults = [r \in Reqs |-> << >>]
  /\ response = [r \in Reqs |-> NoResponse]
  /\ embedCalls = [r \in Reqs |-> 0]
  /\ ranPass = [r \in Reqs |-> "no"]
  /\ initThrew = FALSE
  /\ firstStore = NULL

StreamIdle ==
  /\ toStream = << >>
  /\ sink = NoStream
  /\ delivered = 0
  /\ consumer = "attached"

ChunkerIdle ==
  /\ paragraphs = << >>
  /\ chunkSize = CHUNK_SIZE
  /\ chunkOverlap = CHUNK_OVERLAP
  /\ output = << >>
  /\ splitDone = FALSE

IndexIdle ==
  /\ index = << >>
  /\ asked = << >>
  /\ limit = 0
  /\ found = << >>
  /\ queried = FALSE

GraphIdle ==
  /\ graphPc = [r \in 1..MaxRun |-> "idle"]
  /\ graphState = [r \in 1..MaxRun |-> << >>]
  /\ visited = [r \in 1..MaxRun |-> << >>]
  /\ updates = [r \in 1..MaxRun |-> << >>]
  /\ consumed = [r \in 1..MaxRun |-> 0]
  /\ uiStream = [r \in 1..MaxRun |-> NoStream]
  /\ startPc = [r \in 1..MaxRun |-> "none"]

ChatIdle ==
  /\ serverAction = "chatWithMemory"
  /\ threadId = 1
  /\ checkpoints = [t \in 1..MaxUuid |-> << >>]
  /\ chatPc = [c \in 1..MaxSession |-> "idle"]
  /\ chatState = [c \in 1..MaxSession |-> << >>]
  /\ usedThread = [c \in 1..MaxSession |-> 0]
  /\ turns = [c \in 1..MaxSession |-> 0]
  /\ modelInputs = << >>

NoAgentState ==
  [task |-> "", toolResults |-> {}, steps |-> << >>, finalAnswer |-> "",
   isComplete |-> FALSE]

AgentIdle ==
  /\ agentPc = "off"
  /\ objects = << >>
  /\ agentState = NoAgentState
  /\ lastNode = "none"
  /\ received = << >>
  /\ before = << >>
  /\ returned = [isComplete |-> FALSE]
  /\ agentUpdates = << >>
  /\ agentTaken = 0
  /\ agentStream = NoStream
  /\ agentStartPc = "none"
  /\ agentRead = 0

PageIdle ==
  /\ page = "chat"
  /\ inputValue = ""
  /\ isStreaming = FALSE
  /\ shownStreaming = FALSE
  /\ requests = [i \in 1..MaxSubmit |-> "none"]
  /\ submitted = 0

SseIdle ==
  /\ sseEvents = << >>
  /\ wire = << >>
  /\ searchParsed = << >>
  /\ cutInside = FALSE
  /\ readerPc = "done"

EnhanceIdle ==
  /\ innerChunks = 0
  /\ innerThrows = FALSE
  /\ enhanced = NoStream
  /\ enhancePc = "done"
  /\ enhancedRead = 0

RetryIdle ==
  /\ chats = 0
  /\ attempts = 0
  /\ retryPc = "idle"
  /\ attemptLog = << >>
  /\ waits = << >>
  /\ chatResult = << >>

Users == { "ann", "bob" }
NoCheck == [userId |-> "", young |-> 0, allowed |-> TRUE, calls |-> 0]

LimiterIdle ==
  /\ clock = 0
  /\ rateLimiter = [u \in Users |-> << >>]
  /\ accepted = [u \in Users |-> << >>]
  /\ lastCheck = NoCheck

MemoryKeys == { "k1", "k2", "k3", "k4" }
NoStoreCall == [id |-> 0, key |-> "", value |-> ""]

MemoryIdle ==
  /\ memory = << >>
  /\ storing = {}
  /\ storeCalls = 0
  /\ insertedAt = [k \in MemoryKeys |-> 0]
  /\ lastStored = NoStoreCall

\* What a step of one part of the repository leaves alone: the state of
\* the other parts, which stay as they are when not in use.
offRoute == << streamVars, chunkerVars, indexVars, graphVars, chatVars, agentVars, pageVars, sseVars, enhanceVars, retryVars, limiterVars, memoryVars >>
OffRouteIdle == StreamIdle /\ ChunkerIdle /\ IndexIdle /\ GraphIdle
  /\ ChatIdle /\ AgentIdle /\ PageIdle /\ SseIdle /\ EnhanceIdle
  /\ RetryIdle /\ LimiterIdle /\ MemoryIdle

offStream == << vars, chunkerVars, indexVars, graphVars, chatVars, agentVars, pageVars, sseVars, enhanceVars, retryVars, limiterVars, memoryVars >>
OffStreamIdle == RouteIdle /\ ChunkerIdle /\ IndexIdle /\ GraphIdle
  /\ ChatIdle /\ AgentIdle /\ PageIdle /\ SseIdle /\ EnhanceIdle
  /\ RetryIdle /\ LimiterIdle /\ MemoryIdle

offChunker == << vars, streamVars, indexVars, graphVars, chatVars, agentVars, pageVars, sseVars, enhanceVars, retryVars, limiterVars, memoryVars >>
OffChunkerIdle == RouteIdle /\ StreamIdle /\ IndexIdle /\ GraphIdle
  /\ ChatIdle /\ AgentIdle /\ PageIdle /\ SseIdle /\ EnhanceIdle
  /\ RetryIdle /\ LimiterIdle /\ MemoryIdle

offIndex == << vars, streamVars, chunkerVars, graphVars, chatVars, agentVars, pageVars, sseVars, enhanceVars, retryVars, limiterVars, memoryVars >>
OffIndexIdle == RouteIdle /\ StreamIdle /\ ChunkerIdle /\ GraphIdle
  /\ ChatIdle /\ AgentIdle /\ PageIdle /\ SseIdle /\ EnhanceIdle
  /\ RetryIdle /\ LimiterIdle /\ MemoryIdle

offGraph == << vars, streamVars, chunkerVars, indexVars, chatVars, agentVars, pageVars, sseVars, enhanceVars, retryVars, limiterVars, memoryVars >>
OffGraphIdle == RouteIdle /\ StreamIdle /\ ChunkerIdle /\ IndexIdle
  /\ ChatIdle /\ AgentIdle /\ PageIdle /\ SseIdle /\ EnhanceIdle
  /\ RetryIdle /\ LimiterIdle /\ MemoryIdle

offChat == << vars, streamVars, chunkerVars, indexVars, graphVars, agentVars, pageVars, sseVars, enhanceVars, retryVars, limiterVars, memoryVars >>
OffChatIdle == RouteIdle /\ StreamIdle /\ ChunkerIdle /\ IndexIdle
  /\ GraphIdle /\ AgentIdle /\ PageIdle /\ SseIdle /\ EnhanceIdle
  /\ RetryIdle /\ LimiterIdle /\ MemoryIdle

offAgent == << vars, streamVars, chunkerVars, indexVars, graphVars, chatVars, pageVars, sseVars, enhanceVars, retryVars, limiterVars, memoryVars >>
OffAgentIdle == RouteIdle /\ StreamIdle /\ ChunkerIdle /\ IndexIdle
  /\ GraphIdle /\ ChatIdle /\ PageIdle /\ SseIdle /\ EnhanceIdle
  /\ RetryIdle /\ LimiterIdle /\ MemoryIdle

offPage == << vars, streamVars, chunkerVars, indexVars, graphVars, chatVars, agentVars, sseVars, enhanceVars, retryVars, limiterVars, memoryVars >>
OffPageIdle == RouteIdle /\ StreamIdle /\ ChunkerIdle /\ IndexIdle
  /\ GraphIdle /\ ChatIdle /\ AgentIdle /\ SseIdle /\ EnhanceIdle
  /\ RetryIdle /\ LimiterIdle /\ MemoryIdle

offSse == << vars, streamVars, chunkerVars, indexVars, graphVars, chatVars, agentVars, pageVars, enhanceVars, retryVars, limiterVars, memoryVars >>
OffSseIdle == RouteIdle /\ StreamIdle /\ ChunkerIdle /\ IndexIdle
  /\ GraphIdle /\ ChatIdle /\ AgentIdle /\ PageIdle /\ EnhanceIdle
  /\ RetryIdle /\ LimiterIdle /\ MemoryIdle

offEnhance == << vars, streamVars, chunkerVars, indexVars, graphVars, chatVars, agentVars, pageVars, sseVars, retryVars, limiterVars, memoryVars >>
OffEnhanceIdle == RouteIdle /\ StreamIdle /\ ChunkerIdle /\ IndexIdle
  /\ GraphIdle /\ ChatIdle /\ AgentIdle /\ PageIdle /\ SseIdle /\ RetryIdle
  /\ LimiterIdle /\ MemoryIdle

offRetry == << vars, streamVars, chunkerVars, indexVars, graphVars, chatVars, agentVars, pageVars, sseVars, enhanceVars, limiterVars, memoryVars >>
OffRetryIdle == RouteIdle /\ StreamIdle /\ ChunkerIdle /\ IndexIdle
  /\ GraphIdle /\ ChatIdle /\ AgentIdle /\ PageIdle /\ SseIdle
  /\ EnhanceIdle /\ LimiterIdle /\ MemoryIdle

offLimiter == << vars, streamVars, chunkerVars, indexVars, graphVars, chatVars, agentVars, pageVars, sseVars, enhanceVars, retryVars, memoryVars >>
OffLimiterIdle == RouteIdle /\ StreamIdle /\ ChunkerIdle /\ IndexIdle
  /\ GraphIdle /\ ChatIdle /\ AgentIdle /\ PageIdle /\ SseIdle
  /\ EnhanceIdle /\ RetryIdle /\ MemoryIdle

offMemory == << vars, streamVars, chunkerVars, indexVars, graphVars, chatVars, agentVars, pageVars, sseVars, enhanceVars, retryVars, limiterVars >>
OffMemoryIdle == RouteIdle /\ StreamIdle /\ ChunkerIdle /\ IndexIdle
  /\ GraphIdle /\ ChatIdle /\ AgentIdle /\ PageIdle /\ SseIdle
  /\ EnhanceIdle /\ RetryIdle /\ LimiterIdle

\* ------------------------------------------------------------------ Init
Init ==
  /\ OffRouteIdle
  /\ variant \in {"route", "tutorial"}
  /\ directory \in Directories
  /\ vectorStore = NULL
  /\ stores = [r \in Reqs |-> NoStore]
  /\ pc = [r \in Reqs |-> "idle"]
  /\ body = [r \in Reqs |-> Body(FALSE, FALSE, << >>)]
  /\ docs = [r \in Reqs |-> << >>]
  /\ splits = [r \in Reqs |-> << >>]
  /\ embedded = [r \in Reqs |-> 0]
  /\ store = [r \in Reqs |-> NULL]
  /\ searchResults = [r \in Reqs |-> << >>]
  /\ response = [r \in Reqs |-> NoResponse]
  /\ embedCalls = [r \in Reqs |-> 0]
  /\ ranPass = [r \in Reqs |-> "no"]
  /\ initThrew = FALSE
  /\ firstStore = NULL

\* An exception leaves POST (from initVectorStore, req.json or the search).
Throw(r, step) ==
  /\ response' = [response EXCEPT ![r] = ErrorResponse(variant)]
  /\ pc' = [pc EXCEPT ![r] = "done"]
  /\ vectorStore' = AssignVectorStore(step, vectorStore, PassStore(r))

\* POST is called while a store is published: initVectorStore returns it.
PostReuse(r) ==
  /\ UNCHANGED offRoute
  /\ pc[r] = "idle"
  /\ vectorStore # NULL
  /\ store' = [store EXCEPT ![r] = vectorStore]
  /\ pc' = [pc EXCEPT ![r] = "json"]
  /\ vectorStore' = AssignVectorStore("return", vectorStore, PassStore(r))
  /\ UNCHANGED << firstStore, variant, directory, stores, body, docs,
                  splits, embedded, searchResults, response, embedCalls,
                  ranPass, initThrew >>

\* POST is called while vectorStore is null: a pass starts, the directory
\* is listed and the loaders are started; the handler awaits them.
PostStartPass(r) ==
  /\ UNCHANGED offRoute
  /\ pc[r] = "idle"
  /\ vectorStore = NULL
  /\ ranPass' = [ranPass EXCEPT
                  ![r] = IF initThrew THEN "retry" ELSE "first"]
  /\ pc' = [pc EXCEPT ![r] = "load"]
  /\ vectorStore' = AssignVectorStore("readdir", vectorStore, PassStore(r))
  /\ UNCHANGED << firstStore, variant, directory, stores, body, docs,
                  splits, embedded, store, searchResults, response,
                  embedCalls, initThrew >>

\* The same call when fs.readdirSync throws.
PostReaddirFail(r) ==
  /\ UNCHANGED offRoute
  /\ pc[r] = "idle"
  /\ vectorStore = NULL
  /\ ranPass' = [ranPass EXCEPT
                  ![r] = IF initThrew THEN "retry" ELSE "first"]
  /\ initThrew' = TRUE
  /\ Throw(r, "throw")
  /\ UNCHANGED << firstStore, variant, directory, stores, body, docs,
                  splits, embedded, store, searchResults, embedCalls >>

\* Promise.all of the loaders resolved: the documents are split next.
LoadDone(r) ==
  /\ UNCHANGED offRoute
  /\ pc[r] = "load"
  /\ docs' = [docs EXCEPT ![r] = LoadAll(PdfFiles(directory))]
  /\ pc' = [pc EXCEPT ![r] = "split"]
  /\ vectorStore' = AssignVectorStore("load", vectorStore, PassStore(r))
  /\ UNCHANGED << firstStore, variant, directory, stores, body, splits,
                  embedded, store, searchResults, response, embedCalls,
                  ranPass, initThrew >>

\* One of the loaders rejected.
LoadFail(r) ==
  /\ UNCHANGED offRoute
  /\ pc[r] = "load"
  /\ PdfFiles(directory) # << >>
  /\ initThrew' = TRUE
  /\ Throw(r, "throw")
  /\ UNCHANGED << firstStore, variant, directory, stores, body, docs,
                  splits, embedded, store, searchResults, embedCalls,
                  ranPass >>

\* splitDocuments resolved: the pass creates its store and calls
\* store.addDocuments(splits).
SplitDone(r) ==
  /\ UNCHANGED offRoute
  /\ pc[r] = "split"
  /\ splits' = [splits EXCEPT ![r] = SplitDocuments(docs[r])]
  /\ stores' = [stores EXCEPT ![PassStore(r)] = NewStore]
  /\ embedded' = [embedded EXCEPT ![r] = 0]
  /\ pc' = [pc EXCEPT ![r] = "embed"]
  /\ vectorStore' = AssignVectorStore("create", vectorStore, PassStore(r))
  /\ UNCHANGED << firstStore, variant, directory, body, docs, store,
                  searchResults, response, embedCalls, ranPass, initThrew >>

\* addDocuments: one more batch of chunks comes back from the embedding
\* service; after the last one the vectors are added to the pass's store,
\* the store is assigned to vectorStore and returned to POST.
AddDocumentsStep(r) ==
  /\ UNCHANGED offRoute
  /\ pc[r] = "embed"
  /\ LET n == Len(splits[r])
         next == Min(n, embedded[r] + EmbedBatch)
         s == PassStore(r)
     IN /\ embedCalls' = [embedCalls EXCEPT
                            ![r] = IF embedded[r] < n THEN @ + 1 ELSE @]
        /\ embedded' = [embedded EXCEPT ![r] = next]
        /\ IF next = n
           THEN /\ stores' = [stores EXCEPT ![s].memoryVectors =
                      AddVectors(@, EmbedDocuments(splits[r]), splits[r])]
                /\ vectorStore' =
                      AssignVectorStore("addDocuments", vectorStore, s)
                /\ store' = [store EXCEPT ![r] = s]
                /\ pc' = [pc EXCEPT ![r] = "json"]
                /\ firstStore' = IF firstStore = NULL THEN s ELSE firstStore
           ELSE /\ vectorStore' =
                      AssignVectorStore("embed", vectorStore, s)
                /\ UNCHANGED << stores, store, pc, firstStore >>
  /\ UNCHANGED << variant, directory, body, docs, splits,
                  searchResults, response, ranPass, initThrew >>

\* A call of the embedding service fails inside addDocuments.
EmbedFail(r) ==
  /\ UNCHANGED offRoute
  /\ pc[r] = "embed"
  /\ embedded[r] < Len(splits[r])
  /\ embedCalls' = [embedCalls EXCEPT ![r] = @ + 1]
  /\ initThrew' = TRUE
  /\ Throw(r, "throw")
  /\ UNCHANGED << firstStore, variant, directory, stores, body, docs,
                  splits, embedded, store, searchResults, ranPass >>

\* await req.json() resolved with body b; a falsy query is answered 400,
\* any other query is handed to store.similaritySearch, which embeds it.
ParseBody(r, b) ==
  /\ UNCHANGED offRoute
  /\ pc[r] = "json"
  /\ b.parses
  /\ body' = [body EXCEPT ![r] = b]
  /\ IF Falsy(b)
     THEN /\ response' = [response EXCEPT ![r] = MissingQuery]
          /\ pc' = [pc EXCEPT ![r] = "done"]
     ELSE /\ pc' = [pc EXCEPT ![r] = "search"]
          /\ UNCHANGED response
  /\ vectorStore' = AssignVectorStore("json", vectorStore, PassStore(r))
  /\ UNCHANGED << firstStore, variant, directory, stores, docs, splits,
                  embedded, store, searchResults, embedCalls, ranPass,
                  initThrew >>

\* await req.json() rejected: the body b of the request is no JSON.
ParseFail(r, b) ==
  /\ UNCHANGED offRoute
  /\ pc[r] = "json"
  /\ ~b.parses
  /\ body' = [body EXCEPT ![r] = b]
  /\ Throw(r, "queryFail")
  /\ UNCHANGED << firstStore, variant, directory, stores, docs, splits,
                  embedded, store, searchResults, embedCalls, ranPass,
                  initThrew >>

\* similaritySearch resolved: the stream is built, start() enqueues every
\* result and closes, and the Response carrying the stream is returned.
SearchDone(r) ==
  /\ UNCHANGED offRoute
  /\ pc[r] = "search"
  /\ embedCalls' = [embedCalls EXCEPT ![r] = @ + 1]
  /\ LET results == SimilaritySearch(stores[store[r]].memoryVectors,
                                     body[r].query, DefaultK)
     IN /\ searchResults' = [searchResults EXCEPT ![r] = results]
        /\ response' = [response EXCEPT
                          ![r] = StreamResponse(StreamStart(results))]
  /\ pc' = [pc EXCEPT ![r] = "done"]
  /\ vectorStore' = AssignVectorStore("search", vectorStore, PassStore(r))
  /\ UNCHANGED << firstStore, variant, directory, stores, body, docs,
                  splits, embedded, store, ranPass, initThrew >>

\* similaritySearch rejected: embedding the query failed.
SearchFail(r) ==
  /\ UNCHANGED offRoute
  /\ pc[r] = "search"
  /\ embedCalls' = [embedCalls EXCEPT ![r] = @ + 1]
  /\ Throw(r, "queryFail")
  /\ UNCHANGED << firstStore, variant, directory, stores, body, docs,
                  splits, embedded, store, searchResults, ranPass,
                  initThrew >>

\* The response of request r has been handed to the framework: the request
\* is over and its locals are dropped; a store nobody refers to any more
\* is garbage.  The slot serves the next request the process receives.
RequestOver(r) ==
  /\ UNCHANGED offRoute
  /\ pc[r] = "done"
  /\ pc' = [pc EXCEPT ![r] = "idle"]
  /\ body' = [body EXCEPT ![r] = Body(FALSE, FALSE, << >>)]
  /\ docs' = [docs EXCEPT ![r] = << >>]
  /\ splits' = [splits EXCEPT ![r] = << >>]
  /\ embedded' = [embedded EXCEPT ![r] = 0]
  /\ store' = [store EXCEPT ![r] = NULL]
  /\ searchResults' = [searchResults EXCEPT ![r] = << >>]
  /\ response' = [response EXCEPT ![r] = NoResponse]
  /\ embedCalls' = [embedCalls EXCEPT ![r] = 0]
  /\ ranPass' = [ranPass EXCEPT ![r] = "no"]
  /\ stores' = IF vectorStore = PassStore(r)
                   \/ \E q \in Reqs \ {r} : store[q] = PassStore(r)
                THEN stores
                ELSE [stores EXCEPT ![PassStore(r)] = NoStore]
  /\ UNCHANGED << variant, directory, vectorStore, initThrew, firstStore >>

Next ==
  \/ \E r \in Reqs : PostReuse(r)
  \/ \E r \in Reqs : PostStartPass(r)
  \/ \E r \in Reqs : PostReaddirFail(r)
  \/ \E r \in Reqs : LoadDone(r)
  \/ \E r \in Reqs : LoadFail(r)
  \/ \E r \in Reqs : SplitDone(r)
  \/ \E r \in Reqs : AddDocumentsStep(r)
  \/ \E r \in Reqs : EmbedFail(r)
  \/ \E r \in Reqs, b \in Bodies : ParseBody(r, b)
  \/ \E r \in Reqs, b \in Bodies : ParseFail(r, b)
  \/ \E r \in Reqs : SearchDone(r)
  \/ \E r \in Reqs : SearchFail(r)

\* The same process when it goes on serving: requests end and later ones
\* arrive in their place.
NextServe ==
  \/ Next
  \/ \E r \in Reqs : RequestOver(r)

\* ------------------------------------------- the response stream's reader
\* Search results as POST may hold them: up to DefaultK chunks.
SomeResults ==
  { << >> } \cup
  UNION { [1..n -> { [pageContent |-> [len |-> l, topic |-> t],
                      metadata |-> [source |-> "a"]] :
                     l \in {700}, t \in {"c", "d"} }] : n \in 1..DefaultK }

StreamInit ==
  /\ OffStreamIdle
  /\ toStream \in SomeResults
  /\ sink = NoStream
  /\ delivered = 0
  /\ consumer = "attached"

\* const stream = new ReadableStream({ start(controller) {...} })
StreamCreate ==
  /\ UNCHANGED offStream
  /\ sink.state = "none"
  /\ sink' = StreamStart(toStream)
  /\ UNCHANGED << toStream, delivered, consumer >>

\* The client's reader.read() resolves with the next chunk.
ConsumerRead ==
  /\ UNCHANGED offStream
  /\ consumer = "attached"
  /\ sink.state # "none"
  /\ delivered < Len(sink.queue)
  /\ delivered' = delivered + 1
  /\ UNCHANGED << toStream, sink, consumer >>

\* The client stops reading: it navigated away or dropped the connection.
ConsumerGone ==
  /\ UNCHANGED offStream
  /\ consumer = "attached"
  /\ consumer' = "gone"
  /\ UNCHANGED << toStream, sink, delivered >>

StreamNext ==
  \/ StreamCreate
  \/ ConsumerRead
  \/ ConsumerGone

\* ------------------------------------------------------ the text splitter
\* RecursiveCharacterTextSplitter on a text of paragraphs that hold no
\* further separator: the text is cut at "\n\n" first, pieces that fit
\* chunkSize are kept whole and merged up to chunkSize, a piece that does
\* not fit is cut down to single characters and merged into windows.

\* Offset of the first character of paragraph i.
RECURSIVE ParagraphStart(_, _)
ParagraphStart(ps, i) ==
  IF i = 1 THEN 0
  ELSE ParagraphStart(ps, i - 1) + ps[i - 1] + SEPARATOR_LEN

\* text.length
TextLength(ps) ==
  IF ps = << >> THEN 0 ELSE ParagraphStart(ps, Len(ps)) + ps[Len(ps)]

\* The pieces the first separator cuts the text into; the separator stays
\* at the head of the piece it precedes and counts in the piece's length.
Pieces(ps) ==
  [i \in 1..Len(ps) |->
     [start |-> ParagraphStart(ps, i),
      to |-> ParagraphStart(ps, i) + ps[i],
      len |-> ps[i] + (IF i = 1 THEN 0 ELSE SEPARATOR_LEN)]]

\* A piece cut down to characters and merged: windows over its characters.
Windows(from, to, m, o) ==
  LET doc == [pageContent |-> [topic |-> "d", from |-> from, to |-> to],
              metadata |-> [source |-> "a"]]
      w == SplitText(doc, m, o)
  IN [i \in 1..Len(w) |->
        [from |-> w[i].pageContent.from, to |-> w[i].pageContent.to]]

\* The chunk made of the pieces held: joined and trimmed.
JoinPieces(held) ==
  IF held = << >> THEN << >>
  ELSE << [from |-> held[1].start, to |-> held[Len(held)].to] >>

RECURSIVE HeldLength(_)
HeldLength(held) ==
  IF held = << >> THEN 0 ELSE Head(held).len + HeldLength(Tail(held))

\* After a chunk is emitted the pieces at its end are kept for the next
\* chunk as long as they fit chunkOverlap and leave room for the piece d.
RECURSIVE KeepOverlap(_, _, _, _)
KeepOverlap(held, d, m, o) ==
  IF held # << >>
     /\ (HeldLength(held) > o \/ HeldLength(held) + d.len > m)
  THEN KeepOverlap(Tail(held), d, m, o)
  ELSE held

\* Pieces that fit are merged, in order, into chunks of at most m characters.
RECURSIVE MergeSplits(_, _, _, _)
MergeSplits(pieces, held, m, o) ==
  IF pieces = << >> THEN JoinPieces(held)
  ELSE LET d == Head(pieces)
       IN IF HeldLength(held) + d.len > m
          THEN JoinPieces(held)
                 \o MergeSplits(Tail(pieces),
                                Append(KeepOverlap(held, d, m, o), d), m, o)
          ELSE MergeSplits(Tail(pieces), Append(held, d), m, o)

\* Pieces in order: those that fit are collected and merged, one that does
\* not fit is cut by the remaining separators, down to characters.
RECURSIVE SplitPieces(_, _, _, _)
SplitPieces(pieces, good, m, o) ==
  IF pieces = << >> THEN MergeSplits(good, << >>, m, o)
  ELSE LET d == Head(pieces)
       IN IF d.len < m
          THEN SplitPieces(Tail(pieces), Append(good, d), m, o)
          ELSE MergeSplits(good, << >>, m, o)
                 \o Windows(d.start, d.to, m, o)
                 \o SplitPieces(Tail(pieces), << >>, m, o)

\* splitter.splitText(text)
RecursiveSplit(ps, m, o) ==
  IF Len(ps) = 1 THEN Windows(0, ps[1], m, o)
  ELSE SplitPieces(Pieces(ps), << >>, m, o)

\* Texts of up to MaxParagraphs paragraphs, their lengths taken from lens.
TextsOver(lens) ==
  UNION { [1..n -> lens] : n \in 1..MaxParagraphs }

\* A splitter is constructed with a small configuration or with the
\* route's, and is about to be given a text.
ChunkerInit ==
  /\ OffChunkerIdle
  /\ output = << >>
  /\ splitDone = FALSE
  /\ \/ /\ chunkSize \in 1..MaxChunkSize
        /\ chunkOverlap \in 0..(chunkSize - 1)
        /\ paragraphs \in TextsOver(1..MaxParagraphLen)
     \/ /\ chunkSize = CHUNK_SIZE
        /\ chunkOverlap = CHUNK_OVERLAP
        /\ paragraphs \in
             TextsOver({ k * ((CHUNK_SIZE - CHUNK_OVERLAP) \div 2) :
                         k \in 1..MaxParagraphLen })

\* await splitter.splitDocuments(allDocs), for one document
ChunkerSplit ==
  /\ UNCHANGED offChunker
  /\ ~splitDone
  /\ output' = RecursiveSplit(paragraphs, chunkSize, chunkOverlap)
  /\ splitDone' = TRUE
  /\ UNCHANGED << paragraphs, chunkSize, chunkOverlap >>

ChunkerNext == ChunkerSplit

\* ------------------------------------------------------ the vector index
\* Embeddings an entry may have: two directions, one of them at two
\* magnitudes.
SomeEmbeddings == { << 3, 1 >>, << 6, 2 >>, << 1, 3 >> }

IndexInit ==
  /\ OffIndexIdle
  /\ IndexIdle

\* store.addVectors([v], [document]): the document is numbered by its
\* place of insertion.
IndexAdd(v) ==
  /\ UNCHANGED offIndex
  /\ Len(index) < MaxEntries
  /\ index' = AddVectors(index, << v >>, << [id |-> Len(index) + 1] >>)
  /\ UNCHANGED << asked, limit, found, queried >>

\* store.similaritySearch(query, k); POST searches with no empty query.
IndexQuery(q, k) ==
  /\ UNCHANGED offIndex
  /\ asked' = q
  /\ limit' = k
  /\ found' = SimilaritySearch(index, q, k)
  /\ queried' = TRUE
  /\ UNCHANGED index

IndexNext ==
  \/ \E v \in SomeEmbeddings : IndexAdd(v)
  \/ \E q \in Queries \ { << >> }, k \in 0..MaxK : IndexQuery(q, k)

\* ------------------------------------------------------- basic-graph.ts
Runs == 1..MaxRun

\* initialMessage: the default, another message, the empty string.
Messages == { << "Hello" >>, << "Hi" >>, << >> }

\* The nodes: each returns graphState with its words appended.
node_1(st) == [graphState |-> Append(st.graphState, "I am")]
node_2(st) == [graphState |-> Append(st.graphState, "happy!")]
node_3(st) == [graphState |-> Append(st.graphState, "sad!")]

\* decideMood: Math.random() < 0.5, as a coin.
decideMood(coin) == IF coin THEN "node_2" ELSE "node_3"

\* The graph with node_2 wired to node_3 instead of END.
EdgeNode2ToNode3(node, coin) ==
  IF node = "START" THEN "node_1"
  ELSE IF node = "node_1" THEN decideMood(coin)
  ELSE IF node = "node_2" THEN "node_3"
  ELSE "END"

\* addEdge(START, node_1), addConditionalEdges(node_1, decideMood),
\* addEdge(node_2, END), addEdge(node_3, END)
Edge(node, coin) ==
  IF node = "START" THEN "node_1"
  ELSE IF node = "node_1" THEN decideMood(coin)
  ELSE "END"

\* A chunk of the stream in streamMode 'updates': { [node]: update }.
Update(node, update) == [node |-> node, update |-> update]

\* The events start(controller) enqueues.
NodeEvent(label, st) == [event |-> label, graphState |-> st.graphState]
CompleteEvent == [event |-> "Graph execution complete", graphState |-> << >>]

\* The body of the for-await loop: three independent ifs on the chunk.
EnqueueUpdate(s, chunk) ==
  LET s1 == IF chunk.node = "node_1"
            THEN Enqueue(s, NodeEvent("Node 1 processed", chunk.update))
            ELSE s
      s2 == IF chunk.node = "node_2"
            THEN Enqueue(s1, NodeEvent("Node 2 (Happy Path)", chunk.update))
            ELSE s1
  IN IF chunk.node = "node_3"
     THEN Enqueue(s2, NodeEvent("Node 3 (Sad Path)", chunk.update))
     ELSE s2

GraphInit ==
  /\ OffGraphIdle
  /\ GraphIdle

\* runSimpleGraph(initialMessage): graph.stream is called and the
\* ReadableStream is constructed; start(controller) enters its loop.
RunSimpleGraph(r, msg) ==
  /\ UNCHANGED offGraph
  /\ graphPc[r] = "idle"
  /\ graphState' = [graphState EXCEPT ![r] = msg]
  /\ graphPc' = [graphPc EXCEPT ![r] = Edge("START", TRUE)]
  /\ uiStream' = [uiStream EXCEPT ![r] = NewStream]
  /\ startPc' = [startPc EXCEPT ![r] = "loop"]
  /\ UNCHANGED << visited, updates, consumed >>

\* The graph run executes its next node, merges the node's update into
\* the state, yields the update and follows the node's edge.
GraphStep(r, coin) ==
  /\ UNCHANGED offGraph
  /\ graphPc[r] \in {"node_1", "node_2", "node_3"}
  /\ LET st == [graphState |-> graphState[r]]
         update == IF graphPc[r] = "node_1" THEN node_1(st)
                   ELSE IF graphPc[r] = "node_2" THEN node_2(st)
                   ELSE node_3(st)
     IN /\ graphState' = [graphState EXCEPT ![r] = update.graphState]
        /\ updates' = [updates EXCEPT
                         ![r] = Append(@, Update(graphPc[r], update))]
  /\ visited' = [visited EXCEPT ![r] = Append(@, graphPc[r])]
  /\ graphPc' = [graphPc EXCEPT ![r] = Edge(graphPc[r], coin)]
  /\ UNCHANGED << consumed, uiStream, startPc >>

\* for await (const chunk of stream): the next chunk is taken.
ConsumeChunk(r) ==
  /\ UNCHANGED offGraph
  /\ startPc[r] = "loop"
  /\ consumed[r] < Len(updates[r])
  /\ uiStream' = [uiStream EXCEPT
                    ![r] = EnqueueUpdate(@, updates[r][consumed[r] + 1])]
  /\ consumed' = [consumed EXCEPT ![r] = @ + 1]
  /\ UNCHANGED << graphPc, graphState, visited, updates, startPc >>

\* The graph stream is exhausted: the loop ends, the completion marker is
\* enqueued and the stream is closed.
LoopEnd(r) ==
  /\ UNCHANGED offGraph
  /\ startPc[r] = "loop"
  /\ graphPc[r] = "END"
  /\ consumed[r] = Len(updates[r])
  /\ uiStream' = [uiStream EXCEPT ![r] = Close(Enqueue(@, CompleteEvent))]
  /\ startPc' = [startPc EXCEPT ![r] = "done"]
  /\ UNCHANGED << graphPc, graphState, visited, updates, consumed >>

GraphNext ==
  \/ \E r \in Runs, msg \in Messages : RunSimpleGraph(r, msg)
  \/ \E r \in Runs, coin \in BOOLEAN : GraphStep(r, coin)
  \/ \E r \in Runs : ConsumeChunk(r)
  \/ \E r \in Runs : LoopEnd(r)

\* ------------------------------------------------- chat with memory/agent
Sessions == 1..MaxSession
Uuids == 1..MaxUuid
Prompts == { "My name is Nir", "What is my name?" }

\* A message of the history; session is the chat session it was sent in
\* (the session of the prompt it answers, for a reply of the model).
Message(role, content, c) ==
  [role |-> role, content |-> content, session |-> c]

\* The module is loaded: the graph is compiled with a new MemorySaver and
\*   const config = { configurable: { thread_id: uuidv4() } }
\* is evaluated, once.
ChatInit ==
  /\ OffChatIdle
  /\ serverAction \in {"chatWithMemory", "chatWithAgent"}
  /\ threadId \in Uuids
  /\ checkpoints = [t \in Uuids |-> << >>]
  /\ chatPc = [c \in Sessions |-> "idle"]
  /\ chatState = [c \in Sessions |-> << >>]
  /\ usedThread = [c \in Sessions |-> 0]
  /\ turns = [c \in Sessions |-> 0]
  /\ modelInputs = << >>

\* The thread a call runs under: the module's config, whoever calls.
ConfigThread(c) == threadId

\* chatWithMemory(prompt) / chatWithAgent(prompt) called from session c:
\* app.stream({messages: [prompt]}, config) loads the thread's checkpoint
\* and appends the prompt to its messages.
ChatCall(c, prompt) ==
  /\ UNCHANGED offChat
  /\ chatPc[c] = "idle"
  /\ turns[c] < MaxTurn
  /\ turns' = [turns EXCEPT ![c] = @ + 1]
  /\ LET t == ConfigThread(c)
         messages == Append(checkpoints[t], Message("user", prompt, c))
     IN /\ usedThread' = [usedThread EXCEPT ![c] = t]
        /\ chatState' = [chatState EXCEPT ![c] = messages]
        /\ checkpoints' = [checkpoints EXCEPT ![t] = messages]
  /\ chatPc' = [chatPc EXCEPT ![c] = "model"]
  /\ UNCHANGED << serverAction, threadId, modelInputs >>

\* The model node: model.invoke(state.messages) answers, the reply is
\* appended and the thread's checkpoint is saved.
ChatModel(c) ==
  /\ UNCHANGED offChat
  /\ chatPc[c] = "model"
  /\ modelInputs' = Append(modelInputs,
                           [session |-> c, messages |-> chatState[c]])
  /\ LET messages == Append(chatState[c], Message("ai", "reply", c))
     IN /\ chatState' = [chatState EXCEPT ![c] = messages]
        /\ checkpoints' = [checkpoints EXCEPT ![usedThread[c]] = messages]
  /\ chatPc' = [chatPc EXCEPT ![c] = "idle"]
  /\ UNCHANGED << serverAction, threadId, usedThread, turns >>

ChatNext ==
  \/ \E c \in Sessions, prompt \in Prompts : ChatCall(c, prompt)
  \/ \E c \in Sessions : ChatModel(c)

\* ---------------------------------------------- plan-and-execute-graph.ts
Tasks == { "plan a trip", "add two numbers" }
ActionNames == { "search", "calculate" }

\* What follows "COMPLETE:" in the model's answer, trimmed; the model may
\* answer "COMPLETE:" and nothing more.
Answers == { "42", "" }

\* The contents of the step objects an array of references holds.
Contents(heap, steps) == [i \in 1..Len(steps) |-> heap[steps[i]]]

\* let result = "Result placeholder for action: " + lastStep.action
ResultOf(action) == << "Result placeholder for action: ", action >>

\* toolResults with [action]: result set, a later result for the same
\* action replacing the earlier one.
WithToolResult(toolResults, action, result) ==
  { e \in toolResults : e[1] # action } \union { << action, result >> }

\* The events start(controller) enqueues.
AgentEvent(label, text) == [event |-> label, text |-> text]

\* The body of the for-await loop of runAgent, on one chunk of the stream;
\* heap holds the step objects the chunk's steps refer to.
AgentEnqueueUpdate(s, chunk, heap) ==
  LET u == chunk.update
  IN IF chunk.node = "plan"
     THEN IF u.isComplete /\ u.finalAnswer # ""
          THEN Enqueue(s, AgentEvent("Task Complete", u.finalAnswer))
          ELSE IF "steps" \in DOMAIN u
          THEN Enqueue(s, AgentEvent("Planning next action",
                          IF Len(u.steps) > 0
                            THEN heap[u.steps[Len(u.steps)]].action
                            ELSE ""))
          ELSE s
     ELSE IF Len(u.steps) > 0
          THEN LET lastStep == heap[u.steps[Len(u.steps)]]
               IN Enqueue(Enqueue(s, AgentEvent("Executing", lastStep.action)),
                          AgentEvent("Result", lastStep.result))
          ELSE s

\* addEdge("__start__", "plan"), addConditionalEdges("plan",
\* (state) => state.isComplete ? "__end__" : "execute"),
\* addEdge("execute", "plan")
AgentEdgeToExecute(node, st) ==
  IF node = "plan" THEN "execute" ELSE "plan"
AgentEdge(node, st) ==
  IF node = "plan" THEN (IF st.isComplete THEN "end" ELSE "execute")
  ELSE "plan"

\* The module is loaded and the workflow compiled; no run has started.
AgentInit ==
  /\ OffAgentIdle
  /\ AgentIdle

\* runAgent(task): workflow.stream(initialState), "__start__" -> "plan";
\* the ReadableStream is constructed and start(controller) enters its loop.
RunAgent(task) ==
  /\ UNCHANGED offAgent
  /\ agentStartPc \in {"none", "done", "caught"}
  /\ objects' = << >>
  /\ agentState' = [task |-> task, toolResults |-> {}, steps |-> << >>,
                    finalAnswer |-> "", isComplete |-> FALSE]
  /\ lastNode' = "none"
  /\ received' = << >>
  /\ before' = << >>
  /\ returned' = [isComplete |-> FALSE]
  /\ agentPc' = AgentEdge("__start__", NoAgentState)
  /\ agentUpdates' = << >>
  /\ agentTaken' = 0
  /\ agentStream' = NewStream
  /\ agentStartPc' = "loop"
  /\ agentRead' = 0

\* planNextAction(state), the model answering "COMPLETE: <answer>":
\*   return { finalAnswer, isComplete: true }
\* and the conditional edge leads to "__end__".
PlanComplete(answer) ==
  /\ UNCHANGED offAgent
  /\ agentPc = "plan"
  /\ received' = agentState.steps
  /\ before' = Contents(objects, agentState.steps)
  /\ LET update == [finalAnswer |-> answer, isComplete |-> TRUE]
     IN /\ returned' = update
        /\ agentUpdates' = Append(agentUpdates, Update("plan", update))
  /\ agentState' = [agentState EXCEPT !.finalAnswer = answer,
                                      !.isComplete = TRUE]
  /\ lastNode' = "plan"
  /\ agentPc' = AgentEdge("plan", agentState')
  /\ UNCHANGED << objects, agentTaken, agentStream, agentStartPc,
                  agentRead >>

\* planNextAction(state), the model answering "ACTION: <nextAction>":
\*   return { steps: [...state.steps, { action: nextAction, result: "" }],
\*            isComplete: false }
\* a new array holding the steps of state.steps and one new object.
PlanAction(nextAction) ==
  /\ UNCHANGED offAgent
  /\ agentPc = "plan"
  /\ Len(agentState.steps) < MaxStep
  /\ received' = agentState.steps
  /\ before' = Contents(objects, agentState.steps)
  /\ objects' = Append(objects, [action |-> nextAction, result |-> << >>])
  /\ LET steps == Append(agentState.steps, Len(objects) + 1)
         update == [steps |-> steps, isComplete |-> FALSE]
     IN /\ returned' = update
        /\ agentUpdates' = Append(agentUpdates, Update("plan", update))
        /\ agentState' = [agentState EXCEPT !.steps = steps,
                                            !.isComplete = FALSE]
  /\ lastNode' = "plan"
  /\ agentPc' = AgentEdge("plan", agentState')
  /\ UNCHANGED << agentTaken, agentStream, agentStartPc, agentRead >>

\* planNextAction(state) throws: promptTemplate.invoke or llm.invoke
\* rejects, and the workflow stream throws at its next chunk.
PlanThrow ==
  /\ UNCHANGED offAgent
  /\ agentPc = "plan"
  /\ agentPc' = "thrown"
  /\ UNCHANGED << objects, agentState, lastNode, received, before,
                  returned, agentUpdates, agentTaken, agentStream,
                  agentStartPc, agentRead >>

\* What executeAction does to the step objects:
\*   const updatedSteps = [...state.steps];
\*   updatedSteps[updatedSteps.length - 1].result = result;
\* the copy holds the objects of state.steps, and the last one is written.
ExecuteWriteNothing(heap, steps, result) ==
  heap
ExecuteWrite(heap, steps, result) ==
  [heap EXCEPT ![steps[Len(steps)]].result = result]

\* executeAction(state): returns { steps: updatedSteps, toolResults }.
ExecuteAction ==
  /\ UNCHANGED offAgent
  /\ agentPc = "execute"
  /\ LET steps == agentState.steps
         lastStep == objects[steps[Len(steps)]]
         result == ResultOf(lastStep.action)
         heap == ExecuteWrite(objects, steps, result)
         updatedSteps == steps
         toolResults == WithToolResult(agentState.toolResults,
                                       lastStep.action, result)
         update == [steps |-> updatedSteps, toolResults |-> toolResults]
     IN /\ received' = steps
        /\ before' = Contents(objects, steps)
        /\ objects' = heap
        /\ returned' = update
        /\ agentUpdates' = Append(agentUpdates, Update("execute", update))
        /\ agentState' = [agentState EXCEPT !.steps = updatedSteps,
                                            !.toolResults = toolResults]
  /\ lastNode' = "execute"
  /\ agentPc' = AgentEdge("execute", agentState')
  /\ UNCHANGED << agentTaken, agentStream, agentStartPc, agentRead >>

\* for await (const chunk of stream): the next chunk is taken and the
\* events of its node are enqueued.
AgentConsumeChunk ==
  /\ UNCHANGED offAgent
  /\ agentStartPc = "loop"
  /\ agentTaken < Len(agentUpdates)
  /\ agentStream' = AgentEnqueueUpdate(agentStream,
                                       agentUpdates[agentTaken + 1], objects)
  /\ agentTaken' = agentTaken + 1
  /\ UNCHANGED << agentPc, objects, agentState, lastNode, received, before,
                  returned, agentUpdates, agentStartPc, agentRead >>

\* The workflow stream is exhausted: the loop ends, controller.close().
AgentLoopEnd ==
  /\ UNCHANGED offAgent
  /\ agentStartPc = "loop"
  /\ agentPc = "end"
  /\ agentTaken = Len(agentUpdates)
  /\ agentStream' = Close(agentStream)
  /\ agentStartPc' = "done"
  /\ UNCHANGED << agentPc, objects, agentState, lastNode, received, before,
                  returned, agentUpdates, agentTaken, agentRead >>

\* The workflow stream throws after its last chunk: catch (error) {
\* controller.error(error) }.
AgentLoopCatch ==
  /\ UNCHANGED offAgent
  /\ agentStartPc = "loop"
  /\ agentPc = "thrown"
  /\ agentTaken = Len(agentUpdates)
  /\ agentStream' = Error(agentStream, agentRead)
  /\ agentStartPc' = "caught"
  /\ UNCHANGED << agentPc, objects, agentState, lastNode, received, before,
                  returned, agentUpdates, agentTaken, agentRead >>

\* The reader of the returned stream takes the next chunk of its queue.
AgentRead ==
  /\ UNCHANGED offAgent
  /\ agentStream.state \in {"readable", "closed"}
  /\ agentRead < Len(agentStream.queue)
  /\ agentRead' = agentRead + 1
  /\ UNCHANGED << agentPc, objects, agentState, lastNode, received, before,
                  returned, agentUpdates, agentTaken, agentStream,
                  agentStartPc >>

AgentNext ==
  \/ \E task \in Tasks : RunAgent(task)
  \/ \E answer \in Answers : PlanComplete(answer)
  \/ \E nextAction \in ActionNames : PlanAction(nextAction)
  \/ PlanThrow
  \/ ExecuteAction
  \/ AgentConsumeChunk
  \/ AgentLoopEnd
  \/ AgentLoopCatch
  \/ AgentRead

\* ------------------------------------------- the chat and search pages
Pages == { "chat", "search" }
Inputs == { "", " ", "hi" }

\* inputValue.trim()
Trim(text) == IF text = " " THEN "" ELSE text

\* if (!inputValue.trim() || isStreaming) return
MaySubmit(text, streaming) == ~(Trim(text) = "" \/ streaming)

\* isStreaming after a started request is over: try { ... } catch { ... }
\* finally { setIsStreaming(false) }
AfterRequestTryOnly(outcome, streaming) ==
  IF outcome = "ok" THEN FALSE ELSE streaming
AfterRequest(outcome, streaming) == FALSE

\* The requests that have started and are not over.
InFlight == { i \in 1..MaxSubmit : requests[i] \in {"awaiting", "reading"} }

\* The page is mounted.
PageInit ==
  /\ OffPageIdle
  /\ page \in Pages
  /\ inputValue = ""
  /\ isStreaming = FALSE
  /\ shownStreaming = FALSE
  /\ requests = [i \in 1..MaxSubmit |-> "none"]
  /\ submitted = 0

\* onChange of the input, which is disabled while isStreaming is shown.
PageType(text) ==
  /\ UNCHANGED offPage
  /\ ~shownStreaming
  /\ inputValue' = text
  /\ UNCHANGED << page, isStreaming, shownStreaming, requests, submitted >>

\* handleSubmit up to its first await: the guard, setInputValue(''),
\* setIsStreaming(true) and the call of chatWithMemory / fetch; the state
\* set in the event is rendered before another event is handled.
HandleSubmit ==
  /\ UNCHANGED offPage
  /\ submitted < MaxSubmit
  /\ MaySubmit(inputValue, shownStreaming)
  /\ inputValue' = ""
  /\ isStreaming' = TRUE
  /\ shownStreaming' = TRUE
  /\ requests' = [requests EXCEPT ![submitted + 1] = "awaiting"]
  /\ submitted' = submitted + 1
  /\ UNCHANGED page

\* handleSubmit returns at its guard.
HandleSubmitReturn ==
  /\ UNCHANGED offPage
  /\ ~MaySubmit(inputValue, shownStreaming)
  /\ UNCHANGED pageVars

\* await chatWithMemory(prompt) / await streamSemanticSearch(query)
\* resolves with a stream and the reader loop starts.
RequestResolves(i) ==
  /\ UNCHANGED offPage
  /\ requests[i] = "awaiting"
  /\ requests' = [requests EXCEPT ![i] = "reading"]
  /\ UNCHANGED << page, inputValue, isStreaming, shownStreaming, submitted >>

\* The call rejects, the response is not ok or has no body: catch, finally.
RequestRejects(i) ==
  /\ UNCHANGED offPage
  /\ requests[i] = "awaiting"
  /\ requests' = [requests EXCEPT ![i] = "error"]
  /\ isStreaming' = AfterRequest("error", isStreaming)
  /\ UNCHANGED << page, inputValue, shownStreaming, submitted >>

\* reader.read() resolves with done: the loop ends, finally.
ReadDone(i) ==
  /\ UNCHANGED offPage
  /\ requests[i] = "reading"
  /\ requests' = [requests EXCEPT ![i] = "ok"]
  /\ isStreaming' = AfterRequest("ok", isStreaming)
  /\ UNCHANGED << page, inputValue, shownStreaming, submitted >>

\* reader.read() rejects: catch, finally.
ReadRejects(i) ==
  /\ UNCHANGED offPage
  /\ requests[i] = "reading"
  /\ requests' = [requests EXCEPT ![i] = "error"]
  /\ isStreaming' = AfterRequest("error", isStreaming)
  /\ UNCHANGED << page, inputValue, shownStreaming, submitted >>

\* The page renders the state set outside an event.
PageRender ==
  /\ UNCHANGED offPage
  /\ shownStreaming # isStreaming
  /\ shownStreaming' = isStreaming
  /\ UNCHANGED << page, inputValue, isStreaming, requests, submitted >>

PageNext ==
  \/ \E text \in Inputs : PageType(text)
  \/ HandleSubmit
  \/ HandleSubmitReturn
  \/ \E i \in 1..MaxSubmit : RequestResolves(i)
  \/ \E i \in 1..MaxSubmit : RequestRejects(i)
  \/ \E i \in 1..MaxSubmit : ReadDone(i)
  \/ \E i \in 1..MaxSubmit : ReadRejects(i)
  \/ PageRender

\* ------------------------------------- the search response on the wire
\* The characters of `data: ${JSON.stringify(result)}\n\n`, in pieces a
\* read may end between: the prefix "data: " in two halves, the JSON text
\* of the result as its opening brace, its content and its closing brace,
\* and the two line feeds.
EventLength == 7
Characters(event) ==
  << "da", "ta: ", "{", << "json", event[2] >>, "}", "\n", "\n" >>

RECURSIVE ResponseBody(_)
ResponseBody(events) ==
  IF events = << >> THEN << >>
  ELSE Characters(Head(events)) \o ResponseBody(Tail(events))

\* chunk.split('\n\n')
RECURSIVE SplitLines(_, _)
SplitLines(line, rest) ==
  IF rest = << >> THEN << line >>
  ELSE IF Len(rest) >= 2 /\ rest[1] = "\n" /\ rest[2] = "\n"
  THEN << line >> \o SplitLines(<< >>, SubSeq(rest, 3, Len(rest)))
  ELSE SplitLines(Append(line, Head(rest)), Tail(rest))

\* White space around a JSON text, which JSON.parse accepts.
RECURSIVE StripLineFeeds(_)
StripLineFeeds(text) ==
  IF text = << >> THEN text
  ELSE IF Head(text) = "\n" THEN StripLineFeeds(Tail(text))
  ELSE IF text[Len(text)] = "\n"
  THEN StripLineFeeds(SubSeq(text, 1, Len(text) - 1))
  ELSE text

\* if (line.startsWith('data: ')) { try { JSON.parse(line.substring(6)) }
\* catch { console.error } }: the results the line adds to searchResults.
ParseLine(line) ==
  IF Len(line) >= 2 /\ line[1] = "da" /\ line[2] = "ta: "
  THEN LET text == StripLineFeeds(SubSeq(line, 3, Len(line)))
       IN IF Len(text) = 3 /\ text[1] = "{" /\ text[3] = "}"
          THEN << text[2][2] >>
          ELSE << >>
  ELSE << >>

RECURSIVE ParseLines(_)
ParseLines(lines) ==
  IF lines = << >> THEN << >>
  ELSE ParseLine(Head(lines)) \o ParseLines(Tail(lines))

\* The results one read adds: the chunk is decoded, split and parsed on
\* its own.
ParseChunk(chunk) == ParseLines(SplitLines(<< >>, chunk))

\* The POST handler has answered a search with its stream of results.
SseInit ==
  /\ OffSseIdle
  /\ \E results \in SomeResults :
       /\ sseEvents = StreamStart(results).queue
       /\ wire = ResponseBody(StreamStart(results).queue)
  /\ searchParsed = << >>
  /\ cutInside = FALSE
  /\ readerPc = "reading"

\* const { done, value } = await reader.read() with done false: the
\* transport hands over the next n characters of the body.
SseRead(n) ==
  /\ UNCHANGED offSse
  /\ readerPc = "reading"
  /\ n <= Len(wire)
  /\ searchParsed' = searchParsed \o ParseChunk(SubSeq(wire, 1, n))
  /\ wire' = SubSeq(wire, n + 1, Len(wire))
  /\ cutInside' = (cutInside \/ (Len(wire) - n) % EventLength # 0)
  /\ UNCHANGED << sseEvents, readerPc >>

\* reader.read() resolves with done true: if (done) break
SseDone ==
  /\ UNCHANGED offSse
  /\ readerPc = "reading"
  /\ wire = << >>
  /\ readerPc' = "done"
  /\ UNCHANGED << sseEvents, wire, searchParsed, cutInside >>

SseNext ==
  \/ \E n \in 1..(DefaultK * EventLength) : SseRead(n)
  \/ SseDone

\* ---------------------------------------- CompleteAgent.enhanceStream
\* enhanceStream(stream): the ReadableStream is constructed and
\* start(controller) enters its for-await loop.
EnhanceInit ==
  /\ OffEnhanceIdle
  /\ innerChunks \in 0..MaxInner
  /\ innerThrows \in BOOLEAN
  /\ enhanced = NewStream
  /\ enhancePc = "loop"
  /\ enhancedRead = 0

\* for await (const chunk of stream): a chunk is read, processChunk
\* returns and the chunk is enqueued.
EnhanceChunk ==
  /\ UNCHANGED offEnhance
  /\ enhancePc = "loop"
  /\ innerChunks > 0
  /\ innerChunks' = innerChunks - 1
  /\ enhanced' = Enqueue(enhanced, "chunk")
  /\ UNCHANGED << innerThrows, enhancePc, enhancedRead >>

\* What catch and finally do to the controller after a throw:
\*   catch (error) { controller.error(error) } finally { controller.close() }
AfterThrow(s, read) == Close(Error(s, read))

\* What finally does after the loop has ended: controller.close().
AfterLoop(s) == Close(s)

\* Reading the inner stream throws once its chunks are read.
EnhanceReadThrows ==
  /\ UNCHANGED offEnhance
  /\ enhancePc = "loop"
  /\ innerChunks = 0
  /\ innerThrows
  /\ enhanced' = AfterThrow(enhanced, enhancedRead)
  /\ enhancePc' = "done"
  /\ UNCHANGED << innerChunks, innerThrows, enhancedRead >>

\* await this.processChunk(chunk) throws: inside start(controller) `this`
\* need not be the agent.
EnhanceProcessThrows ==
  /\ UNCHANGED offEnhance
  /\ enhancePc = "loop"
  /\ innerChunks > 0
  /\ innerChunks' = innerChunks - 1
  /\ enhanced' = AfterThrow(enhanced, enhancedRead)
  /\ enhancePc' = "done"
  /\ UNCHANGED << innerThrows, enhancedRead >>

\* The inner stream is read to the end.
EnhanceEnd ==
  /\ UNCHANGED offEnhance
  /\ enhancePc = "loop"
  /\ innerChunks = 0
  /\ ~innerThrows
  /\ enhanced' = AfterLoop(enhanced)
  /\ enhancePc' = "done"
  /\ UNCHANGED << innerChunks, innerThrows, enhancedRead >>

\* The reader of the returned stream takes the next chunk of its queue.
EnhanceRead ==
  /\ UNCHANGED offEnhance
  /\ enhanced.state \in {"readable", "closed"}
  /\ enhancedRead < Len(enhanced.queue)
  /\ enhancedRead' = enhancedRead + 1
  /\ UNCHANGED << innerChunks, innerThrows, enhanced, enhancePc >>

EnhanceNext ==
  \/ EnhanceChunk
  \/ EnhanceReadThrows
  \/ EnhanceProcessThrows
  \/ EnhanceEnd
  \/ EnhanceRead

\* ------------------------------------------------- AdvancedAgent.chat
\* The errors super.chat may throw.
ChatErrors == { "rate limit", "timeout", "network" }

\* await this.delay(1000 * attempts)
RetryDelayFlat(n) == DELAY_UNIT
RetryDelay(n) == DELAY_UNIT * n

\* An agent has been constructed; chat has not been called.
RetryInit ==
  /\ OffRetryIdle
  /\ RetryIdle

\* chat(prompt): attempts = 0 and the while loop is entered.
AdvancedChat ==
  /\ UNCHANGED offRetry
  /\ retryPc \in {"idle", "returned", "threw"}
  /\ chats < MaxChat
  /\ chats' = chats + 1
  /\ attempts' = 0
  /\ attemptLog' = << >>
  /\ waits' = << >>
  /\ chatResult' = << >>
  /\ retryPc' = IF 0 < RETRY_COUNT THEN "try" ELSE "threw"

\* await super.chat(prompt) resolves: the performance is recorded and the
\* formatted stream of this attempt is returned.
AttemptSucceeds ==
  /\ UNCHANGED offRetry
  /\ retryPc = "try"
  /\ attemptLog' = Append(attemptLog, "stream")
  /\ chatResult' = << "stream", Len(attemptLog) + 1 >>
  /\ retryPc' = "returned"
  /\ UNCHANGED << chats, attempts, waits >>

\* await super.chat(prompt) rejects: attempts++; the error is rethrown
\* if attempts === retryCount, else the delay starts.
AttemptFails(error) ==
  /\ UNCHANGED offRetry
  /\ retryPc = "try"
  /\ attemptLog' = Append(attemptLog, error)
  /\ attempts' = attempts + 1
  /\ IF attempts' = RETRY_COUNT
     THEN /\ chatResult' = << "error", error >>
          /\ retryPc' = "threw"
          /\ UNCHANGED waits
     ELSE /\ waits' = Append(waits, RetryDelay(attempts'))
          /\ retryPc' = "delay"
          /\ UNCHANGED chatResult
  /\ UNCHANGED chats

\* The delay is over: while (attempts < this.retryCount), and after the
\* loop throw new Error("Failed after maximum retry attempts").
DelayOver ==
  /\ UNCHANGED offRetry
  /\ retryPc = "delay"
  /\ IF attempts < RETRY_COUNT
     THEN /\ retryPc' = "try"
          /\ UNCHANGED chatResult
     ELSE /\ retryPc' = "threw"
          /\ chatResult' = << "error", "Failed after maximum retry attempts" >>
  /\ UNCHANGED << chats, attempts, attemptLog, waits >>

RetryNext ==
  \/ AdvancedChat
  \/ AttemptSucceeds
  \/ \E error \in ChatErrors : AttemptFails(error)
  \/ DelayOver

\* ----------------------------------------------------- checkRateLimit
\* userRequests.filter(time => now - time < 60000)
RECURSIVE RecentRequests(_, _)
RecentRequests(userRequests, now) ==
  IF userRequests = << >> THEN << >>
  ELSE IF now - Head(userRequests) < RateWindow
  THEN << Head(userRequests) >> \o RecentRequests(Tail(userRequests), now)
  ELSE RecentRequests(Tail(userRequests), now)

\* if (recentRequests.length >= 60) return false
LimitReachedAbove(recentRequests) == Len(recentRequests) > RateLimit
LimitReached(recentRequests) == Len(recentRequests) >= RateLimit

\* How many accepted requests of a user are younger than the window.
Young(userId, now) ==
  Cardinality({ i \in 1..Len(accepted[userId]) :
                  now - accepted[userId][i] < RateWindow })

\* The module is loaded: rateLimiter = new Map().
LimiterInit ==
  /\ OffLimiterIdle
  /\ LimiterIdle

\* Time passes.
ClockTick ==
  /\ UNCHANGED offLimiter
  /\ clock < MaxClock
  /\ clock' = clock + 1
  /\ UNCHANGED << rateLimiter, accepted, lastCheck >>

\* checkRateLimit(userId), called by optimizedChat.
CheckRateLimit(userId) ==
  /\ UNCHANGED offLimiter
  /\ LET now == clock
         recentRequests == RecentRequests(rateLimiter[userId], now)
     IN IF LimitReached(recentRequests)
        THEN /\ lastCheck' = [userId |-> userId, young |-> Young(userId, now),
                              allowed |-> FALSE,
                              calls |-> 1 - lastCheck.calls]
             /\ UNCHANGED << rateLimiter, accepted >>
        ELSE /\ rateLimiter' = [rateLimiter EXCEPT
                                  ![userId] = Append(recentRequests, now)]
             /\ accepted' = [accepted EXCEPT ![userId] = Append(@, now)]
             /\ lastCheck' = [userId |-> userId, young |-> Young(userId, now),
                              allowed |-> TRUE,
                              calls |-> 1 - lastCheck.calls]
  /\ UNCHANGED clock

LimiterNext ==
  \/ ClockTick
  \/ \E userId \in Users : CheckRateLimit(userId)

\* ----------------------------------------------------- CompressedMemory
MemoryValues == { "hello", "42" }

\* compress: JSON.stringify(data); decompress: JSON.parse(data)
Compress(data) == << "json", data >>
Decompress(data) == data[2]

\* this.memory.has(key)
HasKey(map, key) == \E i \in 1..Len(map) : map[i][1] = key

\* this.memory.set(key, compressed): a key of the Map keeps its place, a
\* new key goes last.
MapSet(map, key, compressed) ==
  IF HasKey(map, key)
  THEN [i \in 1..Len(map) |->
          IF map[i][1] = key THEN << key, compressed >> ELSE map[i]]
  ELSE Append(map, << key, compressed >>)

\* cleanup(): keys.slice(0, keys.length - MAX_SIZE) are deleted.
CleanupLast(map) ==
  SubSeq(map, 1, Len(map) - (Len(map) - MAX_SIZE))
Cleanup(map) ==
  SubSeq(map, (Len(map) - MAX_SIZE) + 1, Len(map))

\* retrieve(key): null for a key the Map does not hold.
Retrieve(map, key) ==
  IF HasKey(map, key)
  THEN Decompress((CHOOSE e \in { map[i] : i \in 1..Len(map) } :
                     e[1] = key)[2])
  ELSE "null"

\* new CompressedMemory()
MemoryInit ==
  /\ OffMemoryIdle
  /\ MemoryIdle

\* store(key, value) up to await this.compress(value).
StoreCall(key, value) ==
  /\ UNCHANGED offMemory
  /\ storeCalls < MaxStore
  /\ storeCalls' = storeCalls + 1
  /\ storing' = storing \union
                  { [id |-> storeCalls + 1, key |-> key, value |-> value] }
  /\ UNCHANGED << memory, insertedAt, lastStored >>

\* store after the await: this.memory.set(key, compressed), and
\* cleanup() if this.memory.size > MAX_SIZE.
StoreSet(id) ==
  /\ UNCHANGED offMemory
  /\ \E call \in storing :
       /\ call.id = id
       /\ storing' = storing \ {call}
       /\ LET set == MapSet(memory, call.key, Compress(call.value))
              kept == IF Len(set) > MAX_SIZE THEN Cleanup(set) ELSE set
              nth == (storeCalls - Cardinality(storing)) + 1
          IN /\ memory' = kept
             /\ insertedAt' = [k \in MemoryKeys |->
                                 IF ~HasKey(kept, k) THEN 0
                                 ELSE IF HasKey(memory, k) THEN insertedAt[k]
                                 ELSE nth]
       /\ lastStored' = call
  /\ UNCHANGED storeCalls

MemoryNext ==
  \/ \E key \in MemoryKeys, value \in MemoryValues : StoreCall(key, value)
  \/ \E id \in 1..MaxStore : StoreSet(id)

\* -------------------------------------------------------- specifications
allVars == << vars, streamVars, chunkerVars, indexVars, graphVars, chatVars, agentVars, pageVars, sseVars, enhanceVars, retryVars, limiterVars, memoryVars >>

Spec == Init /\ [][Next]_allVars

SpecServe == Init /\ [][NextServe]_allVars

SpecStream == StreamInit /\ [][StreamNext]_allVars

SpecChunker == ChunkerInit /\ [][ChunkerNext]_allVars

SpecIndex == IndexInit /\ [][IndexNext]_allVars

SpecGraph == GraphInit /\ [][GraphNext]_allVars

SpecChat == ChatInit /\ [][ChatNext]_allVars

SpecAgent == AgentInit /\ [][AgentNext]_allVars

SpecPage == PageInit /\ [][PageNext]_allVars

SpecSse == SseInit /\ [][SseNext]_allVars

SpecEnhance == EnhanceInit /\ [][EnhanceNext]_allVars

\* Every super.chat settles and every delay ends.
SpecRetry ==
  /\ RetryInit
  /\ [][RetryNext]_allVars
  /\ WF_allVars(AttemptSucceeds \/ \E error \in ChatErrors : AttemptFails(error))
  /\ WF_allVars(DelayOver)

SpecLimiter == LimiterInit /\ [][LimiterNext]_allVars

SpecMemory == MemoryInit /\ [][MemoryNext]_allVars

\* ================================================================ claims
\* The chunks one pass over the corpus produces, and the index they make.
CorpusChunks == SplitDocuments(LoadAll(PdfFiles(directory)))
FullIndex == AddVectors(<< >>, EmbedDocuments(CorpusChunks), CorpusChunks)
InPass(r) == pc[r] \in {"load", "split", "embed"}
InitReturned(r) == store[r] # NULL
WhitespaceOnly(q) == \A i \in 1..Len(q) : q[i] = " "

\* C1: at most one indexing pass is in flight at any time: a POST that
\* arrives while a pass is running awaits it and starts no pass of its own.
C1_SinglePassInFlight ==
  Cardinality({r \in Reqs : InPass(r)}) <= 1

\* C2: whenever a store is published, also after two requests that both
\* arrived before indexing completed, it holds exactly the chunks of one
\* pass over the corpus, not a multiple of them.
C2_PublishedSizeIsOnePass ==
  vectorStore # NULL =>
    Len(stores[vectorStore].memoryVectors) = Len(CorpusChunks)

\* C2 witness: two passes overlapped, both completed, all requests are
\* done and the published store of a non-empty corpus is in place.
C2_Witness ==
  /\ vectorStore # NULL
  /\ CorpusChunks # << >>
  /\ \A r \in Reqs : pc[r] = "done"
  /\ \E a, b \in Reqs :
       /\ a # b
       /\ ranPass[a] = "first" /\ ranPass[b] = "first"
       /\ store[a] = PassStore(a) /\ store[b] = PassStore(b)

\* C3: no partial index is published: vectorStore only ever refers to a
\* store that holds the entries of all chunks, a pass that is still running
\* or that failed is never the published store, and every request that is
\* past initVectorStore holds a complete store.
C3_NoPartialIndexPublished ==
  /\ vectorStore # NULL => stores[vectorStore].memoryVectors = FullIndex
  /\ \A r \in Reqs :
       (ranPass[r] # "no" /\ ~InitReturned(r)) => vectorStore # PassStore(r)
  /\ \A r \in Reqs :
       pc[r] \in {"json", "search"} =>
         /\ InitReturned(r)
         /\ stores[store[r]].memoryVectors = FullIndex

\* C3 witness: a pass failed inside addDocuments after some chunks had been
\* embedded, and vectorStore is still null.
C3_Witness ==
  /\ vectorStore = NULL
  /\ \E r \in Reqs :
       /\ ranPass[r] # "no" /\ pc[r] = "done" /\ ~InitReturned(r)
       /\ embedded[r] > 0 /\ embedded[r] < Len(splits[r])

\* C4: once vectorStore is non-null it is never reassigned, and the entries
\* of the store it refers to never change.
C4_WrittenOnce ==
  [][vectorStore # NULL =>
       /\ vectorStore' = vectorStore
       /\ stores'[vectorStore] = stores[vectorStore]]_vars

\* C5: a failed pass is retryable: while no call of initVectorStore has
\* returned a store, a POST that arrives after a call has thrown starts a
\* pass of its own from the beginning (nothing loaded, split or embedded,
\* no store created); a pass whose last embedding batch succeeds publishes
\* its complete store and hands it to its request; and when that request's
\* search succeeds it is answered with the results over the whole corpus.
C5_FailedPassRetryable ==
  [][\A r \in Reqs :
       /\ ( /\ initThrew
            /\ firstStore = NULL
            /\ pc[r] = "idle" /\ pc'[r] # "idle" )
          => /\ ranPass'[r] = "retry"
             /\ pc'[r] \in {"load", "done"}
             /\ docs'[r] = << >> /\ splits'[r] = << >> /\ embedded'[r] = 0
             /\ ~stores'[PassStore(r)].exists
       /\ (pc[r] = "embed" /\ pc'[r] # "embed" /\ pc'[r] # "done")
          => /\ vectorStore' = PassStore(r)
             /\ store'[r] = PassStore(r)
             /\ stores'[PassStore(r)].memoryVectors = FullIndex
             /\ pc'[r] = "json"
       /\ (ranPass[r] = "retry" /\ SearchDone(r))
          => /\ response'[r].status = 200
             /\ response'[r].stream =
                  StreamStart(SimilaritySearch(FullIndex, body[r].query,
                                              DefaultK))
     ]_vars

\* C5 witness: a request that started its pass after an earlier call had
\* thrown has published the store and has been answered from it.
C5_Witness ==
  \E r \in Reqs :
    /\ ranPass[r] = "retry"
    /\ vectorStore = PassStore(r)
    /\ pc[r] = "done"
    /\ response[r].status = 200
    /\ response[r].stream.queue # << >>

\* C6: a request rejected for its missing or empty query made no call of
\* the embedding service, neither for the query nor for the corpus.
C6_RejectedBeforeAnyNetworkCall ==
  \A r \in Reqs : response[r] = MissingQuery => embedCalls[r] = 0

\* C7: every request whose body carries an empty or whitespace-only query
\* is answered 400 'Missing query' (and so gets no search and no stream).
C7_BlankQueryRejected ==
  \A r \in Reqs :
    ( /\ pc[r] = "done" /\ InitReturned(r)
      /\ body[r].parses /\ body[r].hasQuery
      /\ WhitespaceOnly(body[r].query) )
    => response[r] = MissingQuery

\* An error signal: an exception leaving POST, or a 5xx response, with no
\* stream attached.
IsErrorSignal(x) ==
  /\ x.kind = "throw" \/ (x.kind = "response" /\ x.status >= 500)
  /\ x.stream = NoStream

\* C8: when the embedding of the query fails, the request ends with an
\* error signal (an exception, or a 5xx response) that carries no stream
\* and no result event.
C8_QueryEmbeddingFailureIsError ==
  [][\A r \in Reqs :
       SearchFail(r) => /\ IsErrorSignal(response'[r])
                        /\ response'[r].stream.queue = << >>
                        /\ searchResults'[r] = << >>
                        /\ pc'[r] = "done"]_vars

\* C8 witness: a request with a proper query, served from a non-empty
\* store, ended without a stream: its search failed.
C8_Witness ==
  \E r \in Reqs :
    /\ pc[r] = "done" /\ InitReturned(r)
    /\ body[r].parses /\ ~Falsy(body[r])
    /\ stores[store[r]].memoryVectors # << >>
    /\ response[r].status # 200

\* A step in which the query of request r fails.
QueryFailureStep(r) ==
  \/ \E b \in Bodies : ParseFail(r, b)
  \/ \E b \in Bodies : ParseBody(r, b) /\ Falsy(b)
  \/ SearchFail(r)

\* C9: a step in which a query fails (unparsable body, missing query,
\* failed search) leaves vectorStore and every store unchanged and leaves
\* the position, store, results and response of every other request as
\* they were.
C9_QueryFailureIsLocal ==
  [][\A r \in Reqs :
       QueryFailureStep(r) =>
         /\ vectorStore' = vectorStore
         /\ stores' = stores
         /\ \A q \in Reqs \ {r} :
              /\ pc'[q] = pc[q] /\ store'[q] = store[q]
              /\ searchResults'[q] = searchResults[q]
              /\ response'[q] = response[q]]_vars

\* C9 witness: one request failed in its query phase while the published
\* store is in place and another request is waiting for its search.
C9_Witness ==
  \E r, q \in Reqs :
    /\ r # q
    /\ pc[r] = "done" /\ InitReturned(r) /\ response[r].status # 200
    /\ vectorStore # NULL /\ stores[vectorStore].memoryVectors # << >>
    /\ pc[q] = "search"

\* C10: the stream of a search response carries exactly one 'data:' event
\* per search result, the i-th event being the i-th result of
\* similaritySearch, and the results are those similaritySearch ranked.
C10_OneEventPerResultInOrder ==
  \A r \in Reqs :
    response[r].status = 200 =>
      /\ Len(response[r].stream.queue) = Len(searchResults[r])
      /\ \A i \in 1..Len(searchResults[r]) :
           response[r].stream.queue[i] = SseEvent(searchResults[r][i])
      /\ searchResults[r] =
           SimilaritySearch(stores[store[r]].memoryVectors,
                            body[r].query, DefaultK)

\* C10 witness: a response whose stream carries DefaultK events, two of
\* them for chunks of equal similarity from different sources.
C10_Witness ==
  \E r \in Reqs :
    /\ response[r].status = 200
    /\ Len(response[r].stream.queue) = DefaultK
    /\ searchResults[r][1].metadata # searchResults[r][2].metadata
    /\ searchResults[r][1].pageContent.topic
         = searchResults[r][2].pageContent.topic

\* ------------------------------------------------------------ C11 .. C13
\* The calls on the controller that terminate a stream.
Terminations == {"close", "error"}

\* The directory holds no file whose name ends in '.pdf'.
NoPdfInDirectory ==
  \A i \in 1..Len(directory) : directory[i].ext # "pdf"

\* C11: the stream of a search response is append-only and close-once: the
\* calls made on its controller are enqueues followed by exactly one
\* termination (close or error, never both), every enqueue was accepted,
\* nothing is enqueued after the termination, and once the response
\* exists its stream is never written again.
C11_AppendOnlyCloseOnce ==
  /\ [](\A r \in Reqs :
         LET s == response[r].stream
             n == Len(s.ops)
         IN s.state # "none" =>
              /\ n >= 1
              /\ s.ops[n] \in Terminations
              /\ \A i \in 1..(n - 1) : s.ops[i] = "enqueue"
              /\ Len(s.queue) = n - 1
              /\ s.state = IF s.ops[n] = "close" THEN "closed"
                           ELSE "errored")
  /\ [][\A r \in Reqs :
          response[r].stream.state # "none" =>
            response'[r].stream = response[r].stream]_vars

\* C11 witness: a response whose stream took DefaultK enqueues and then
\* the close.
C11_Witness ==
  \E r \in Reqs :
    /\ response[r].stream.state = "closed"
    /\ Len(response[r].stream.ops) = DefaultK + 1
    /\ response[r].stream.ops[DefaultK + 1] = "close"
    /\ response[r].stream.ops[DefaultK] = "enqueue"

\* C12: on a directory without a .pdf file every indexing pass that got
\* the directory listing completes, the store it publishes holds 0
\* entries, and every query whose search completes is answered 200 with a
\* closed stream carrying no event.  (A failure of the query's own
\* embedding call is the error of C8, whatever the size of the index.)
C12_EmptyCorpusIndexesToEmpty ==
  [][NoPdfInDirectory =>
       \A r \in Reqs :
         /\ pc[r] \in {"load", "split", "embed"} => pc'[r] # "done"
         /\ (store[r] = NULL /\ store'[r] # NULL) =>
              /\ vectorStore' # NULL
              /\ stores'[vectorStore'].exists
              /\ stores'[vectorStore'].memoryVectors = << >>
              /\ stores'[store'[r]].memoryVectors = << >>
         /\ (pc[r] = "search" /\ SearchDone(r)) =>
              /\ response'[r].status = 200
              /\ response'[r].stream.state = "closed"
              /\ response'[r].stream.queue = << >>]_vars

\* C12 witness: on a directory without a .pdf file a pass has published
\* its store and two queries with text have been answered.
C12_Witness ==
  /\ NoPdfInDirectory
  /\ directory # << >>
  /\ vectorStore # NULL
  /\ \E r \in Reqs : ranPass[r] # "no" /\ store[r] = vectorStore
  /\ \A r \in Reqs :
       /\ pc[r] = "done"
       /\ ~Falsy(body[r])
       /\ response[r].status = 200

C16_LaterCallsReturnFirstStore ==
  [][\A r \in Reqs :
       (firstStore # NULL /\ pc[r] = "idle" /\ pc'[r] # "idle") =>
         /\ pc'[r] = "json"
         /\ ranPass'[r] = "no"
         /\ embedCalls'[r] = embedCalls[r]
         /\ store'[r] = firstStore]_vars

\* ------------------------------------------------------------ C17 .. C18
\* ceil(a / b) for b > 0.
CeilDiv(a, b) == (a + b - 1) \div b

\* C17: a text of length L split with chunk size M and overlap O gives
\* ceil((L - O) / (M - O)) chunks when L > M and exactly 1 chunk when
\* L <= M.
C17_ChunkCountFormula ==
  splitDone =>
    LET L == TextLength(paragraphs)
    IN Len(output) =
         IF L > chunkSize
         THEN CeilDiv(L - chunkOverlap, chunkSize - chunkOverlap)
         ELSE 1

\* C18: in the chunks produced from one text, every chunk after the first
\* starts exactly O characters before the end of the chunk before it.
C18_ConsecutiveOverlapExact ==
  splitDone =>
    \A i \in 1..(Len(output) - 1) :
      output[i + 1].from = output[i].to - chunkOverlap

\* ------------------------------------------------------------------ C19
\* The embedding of the entry a returned document belongs to.
EmbeddingOf(d) == index[d.id].embedding

\* Entries a and b are equally similar to the query vector q.
Tied(q, a, b) == ~CloserThan(q, a, b) /\ ~CloserThan(q, b, a)

\* What C19 requires of the result held, for the index as it is.
TopKOfIndex ==
  LET q == EmbedQuery(asked)
      n == Len(found)
      ids == { found[i].id : i \in 1..n }
  IN /\ n = Min(limit, Len(index))
     /\ ids \subseteq 1..Len(index)
     /\ Cardinality(ids) = n
     /\ \A i, j \in 1..n :
          i < j =>
            /\ ~CloserThan(q, EmbeddingOf(found[j]), EmbeddingOf(found[i]))
            /\ Tied(q, EmbeddingOf(found[i]), EmbeddingOf(found[j]))
                 => found[i].id < found[j].id
     /\ \A e \in (1..Len(index)) \ ids :
          \A i \in 1..n :
            /\ ~CloserThan(q, index[e].embedding, EmbeddingOf(found[i]))
            /\ Tied(q, index[e].embedding, EmbeddingOf(found[i]))
                 => found[i].id < e
     /\ index = << >> => found = << >>

\* C19: a query with limit k against an index of entries E returns
\* min(k, |E|) distinct entries of E, none of the entries left out is more
\* similar than one returned, the results are in order of non-increasing
\* similarity, equally similar results are in insertion order and none
\* left out was inserted before an equally similar one returned; on an
\* empty index the result is the empty sequence for every k >= 0.
C19_TopKSortedStable ==
  [][(queried' /\ index' = index) => TopKOfIndex']_allVars

\* C19 witness: a query with k smaller than the index returned entries of
\* which the first two are equally similar although their embeddings
\* differ, and left out an entry.
C19_Witness ==
  /\ queried
  /\ TopKOfIndex
  /\ limit = 2
  /\ Len(index) = MaxEntries
  /\ Len(found) = 2
  /\ EmbeddingOf(found[1]) # EmbeddingOf(found[2])
  /\ Tied(EmbedQuery(asked), EmbeddingOf(found[1]), EmbeddingOf(found[2]))

\* ------------------------------------------------------------------ C20
IsPrefix(a, b) ==
  Len(a) <= Len(b) /\ \A i \in 1..Len(a) : a[i] = b[i]

\* The two paths of the graph and the event labels each puts on the stream.
HappyPath == << "node_1", "node_2" >>
SadPath == << "node_1", "node_3" >>
EventLabels(path) ==
  << "Node 1 processed",
     IF path = HappyPath THEN "Node 2 (Happy Path)" ELSE "Node 3 (Sad Path)",
     "Graph execution complete" >>
LabelsOf(queue) == [i \in 1..Len(queue) |-> queue[i].event]

\* C20: every run of runSimpleGraph executes node_1 once, then exactly one
\* of node_2 and node_3, then ends; its stream carries the Node 1 event,
\* then the Happy or the Sad event of the node executed, each with the
\* graphState that node returned, then the completion marker, and it is
\* closed after the marker and not before.
C20_OnePathThenComplete ==
  \A r \in Runs :
    \E path \in {HappyPath, SadPath} :
      LET s == uiStream[r]
      IN /\ IsPrefix(visited[r], path)
         /\ graphPc[r] = "END" => visited[r] = path
         /\ IsPrefix(LabelsOf(s.queue), EventLabels(path))
         /\ \A i \in 1..Len(s.queue) :
              i <= Len(path) =>
                /\ i <= Len(updates[r])
                /\ updates[r][i].node = path[i]
                /\ s.queue[i].graphState = updates[r][i].update.graphState
         /\ s.state \in {"none", "readable", "closed"}
         /\ s.state = "closed" <=> startPc[r] = "done"
         /\ startPc[r] = "done" =>
              /\ graphPc[r] = "END"
              /\ LabelsOf(s.queue) = EventLabels(path)
              /\ s.ops = << "enqueue", "enqueue", "enqueue", "close" >>

\* C20 witness: two runs are over, one took the happy path and the other
\* the sad path, and both streams are closed.
C20_Witness ==
  \E r1, r2 \in Runs :
    /\ visited[r1] = HappyPath /\ visited[r2] = SadPath
    /\ startPc[r1] = "done" /\ startPc[r2] = "done"
    /\ uiStream[r1].state = "closed" /\ uiStream[r2].state = "closed"
    /\ uiStream[r1].queue[2].graphState = << "Hello", "I am", "happy!" >>

\* ------------------------------------------------------------------ C14
\* C14: chat memory is scoped to the conversation: calls made from
\* different chat sessions run under different thread_ids, and the message
\* list the model receives for a session holds no message of another
\* session.
C14_MemoryScopedToSession ==
  /\ \A c, d \in Sessions :
       (c # d /\ usedThread[c] # 0 /\ usedThread[d] # 0) =>
         usedThread[c] # usedThread[d]
  /\ \A i \in 1..Len(modelInputs) :
       \A j \in 1..Len(modelInputs[i].messages) :
         modelInputs[i].messages[j].session = modelInputs[i].session

\* ------------------------------------------------------------------ C15
\* The contents the step objects of the received state have now.
ReceivedNow == Contents(objects, received)

\* planNextAction leaves the state it received as it was.
PlanLeavesStateAlone == lastNode = "plan" => ReceivedNow = before

\* C15: graph nodes never mutate the state they receive: after
\* planNextAction or executeAction returns, the steps array of the state
\* it received and every step object in it have the contents they had
\* before the call; the update is carried by the returned partial state.
C15_NodesLeaveReceivedStateAlone ==
  lastNode \in {"plan", "execute"} => ReceivedNow = before

\* ------------------------------------------------------------------ C21
\* How many times a call was made on a controller.
CountOps(ops, op) == Cardinality({ i \in 1..Len(ops) : ops[i] = op })

\* The catch branch of runAgent: the stream is errored, by one error()
\* that is the last call on the controller, never closed, and carries no
\* 'Task Complete' event; what the reader has read, it has read.
CaughtErrorsStream ==
  agentStartPc = "caught" =>
    /\ agentStream.state = "errored"
    /\ CountOps(agentStream.ops, "close") = 0
    /\ CountOps(agentStream.ops, "error") = 1
    /\ agentStream.ops[Len(agentStream.ops)] = "error"
    /\ \A i \in 1..Len(agentStream.queue) :
         agentStream.queue[i].event # "Task Complete"
    /\ Len(agentStream.queue) = agentRead

\* C21: if iterating the graph stream throws, the controller is put into
\* the errored state, the completion marker is not emitted and close() is
\* not called afterwards, while the events enqueued before the failure
\* remain delivered: every event enqueued is still in the stream.
C21_ThrowErrorsStreamKeepsEvents ==
  agentStartPc = "caught" =>
    /\ agentStream.state = "errored"
    /\ CountOps(agentStream.ops, "close") = 0
    /\ \A i \in 1..Len(agentStream.queue) :
         agentStream.queue[i].event # "Task Complete"
    /\ Len(agentStream.queue) = CountOps(agentStream.ops, "enqueue")


\* ------------------------------------------------------------------ C22
\* C22: executeAction is only entered with a non-empty steps array whose
\* last step is the action just planned, with an empty result, so lastStep
\* is never undefined; and the workflow reaches the end only directly
\* after a plan step that returned isComplete = true.
C22_ExecuteAfterPlanEndAfterComplete ==
  /\ agentPc = "execute" =>
       /\ Len(agentState.steps) > 0
       /\ lastNode = "plan"
       /\ "steps" \in DOMAIN returned
       /\ returned.steps = agentState.steps
       /\ agentState.steps[Len(agentState.steps)] \in DOMAIN objects
       /\ objects[agentState.steps[Len(agentState.steps)]].result = << >>
  /\ agentPc = "end" =>
       /\ lastNode = "plan"
       /\ returned.isComplete

\* C22 witness: the workflow has ended after two rounds of plan and
\* execute.
C22_Witness ==
  /\ agentPc = "end"
  /\ Len(agentState.steps) = 2
  /\ \A i \in 1..2 : objects[agentState.steps[i]].result # << >>


\* ------------------------------------------------------------------ C23
\* The stream of a run that ended holds the event of the final answer as
\* its last chunk, enqueued before the one close().
EndsWithTaskComplete ==
  LET s == agentStream
  IN /\ Len(s.queue) > 0
     /\ s.queue[Len(s.queue)] =
          AgentEvent("Task Complete", agentState.finalAnswer)
     /\ s.state = "closed"
     /\ Len(s.ops) >= 2
     /\ s.ops[Len(s.ops)] = "close"
     /\ s.ops[Len(s.ops) - 1] = "enqueue"
     /\ CountOps(s.ops, "close") = 1

\* A run that ended with an answer that is not empty announces it.
AnswerAnnounced ==
  (agentStartPc = "done" /\ agentState.finalAnswer # "") =>
    EndsWithTaskComplete

\* C23: whenever the plan-and-execute workflow ends (a plan step returned
\* isComplete = true), the stream returned by runAgent contains a 'Task
\* Complete' event carrying the final answer before the stream is closed.
C23_TaskCompleteBeforeClose ==
  agentStartPc = "done" => EndsWithTaskComplete


\* ------------------------------------------------------------------ C24
\* The step objects of state.steps.
StepsOfState == Contents(objects, agentState.steps)

\* C24: after every execute step every step of state.steps has a result
\* that is not empty, toolResults[s.action] is s.result for every step s,
\* and toolResults holds no key that is not the action of some step.
C24_ToolResultsMirrorSteps ==
  /\ lastNode = "execute" =>
       \A i \in 1..Len(StepsOfState) :
         /\ StepsOfState[i].result # << >>
         /\ << StepsOfState[i].action, StepsOfState[i].result >>
              \in agentState.toolResults
  /\ \A e \in agentState.toolResults :
       /\ \E i \in 1..Len(StepsOfState) : StepsOfState[i].action = e[1]
       /\ \A f \in agentState.toolResults : f[1] = e[1] => f = e

\* C24 witness: two steps with the same action have been executed, and
\* toolResults holds the one key.
C24_Witness ==
  /\ lastNode = "execute"
  /\ Len(StepsOfState) = 2
  /\ StepsOfState[1].action = StepsOfState[2].action
  /\ Cardinality(agentState.toolResults) = 1


\* ------------------------------------------------------------------ C25
\* C25: on the streaming chat and search pages at most one request is in
\* flight at a time: handleSubmit starts a request only when isStreaming
\* is false, and isStreaming is false again after every started request
\* has ended, by success or by error.
C25_OneRequestInFlight ==
  /\ [](/\ Cardinality(InFlight) <= 1
        /\ isStreaming <=> InFlight # {})
  /\ [][submitted' # submitted => (~isStreaming /\ InFlight = {})]_allVars

\* C25 witness: one request has ended by success and one by error, a
\* third is in flight.
C25_Witness ==
  /\ requests[1] = "ok"
  /\ requests[2] = "error"
  /\ requests[3] = "reading"
  /\ isStreaming


\* ------------------------------------------------------------------ C26
\* The results of the events the handler enqueued, in their order.
ResultsSent == [i \in 1..Len(sseEvents) |-> sseEvents[i][2]]

\* When every read ends at the end of an event the page collects every
\* result, in order.
WholeEventsCollected ==
  (readerPc = "done" /\ ~cutInside) => searchParsed = ResultsSent

\* C26: the search page collects every result the server sent: for every
\* way the transport splits the body into reads, the results the client
\* parses are as many as the 'data:' events the POST handler enqueued, in
\* the same order.
C26_EveryResultCollected ==
  readerPc = "done" => searchParsed = ResultsSent


\* ------------------------------------------------------------------ C27
\* The terminal calls made on the controller of the enhanced stream.
TerminalCalls ==
  CountOps(enhanced.ops, "close") + CountOps(enhanced.ops, "error")

\* A stream read to the end is closed by one close() and no error().
ReadToEndClosesOnce ==
  (enhancePc = "done" /\ enhanced.state = "closed") =>
    /\ CountOps(enhanced.ops, "close") = 1
    /\ CountOps(enhanced.ops, "error") = 0
    /\ enhanced.ops[Len(enhanced.ops)] = "close"

\* C27: CompleteAgent.enhanceStream performs exactly one terminal action
\* on its controller: close() when the inner stream is read to the end,
\* error() when reading throws, and never both on the same controller.
C27_OneTerminalAction ==
  enhancePc = "done" =>
    /\ TerminalCalls = 1
    /\ enhanced.state = "closed" =>
         enhanced.ops[Len(enhanced.ops)] = "close"
    /\ enhanced.state = "errored" =>
         enhanced.ops[Len(enhanced.ops)] = "error"


\* ------------------------------------------------------------------ C28
\* The failed attempts of the call so far.
Failures == { i \in 1..Len(attemptLog) : attemptLog[i] # "stream" }

\* What holds of a call of AdvancedAgent.chat at every moment.
RetryBounded ==
  /\ Len(attemptLog) <= RETRY_COUNT
  /\ attempts = Cardinality(Failures)
  /\ \A i \in 1..Len(attemptLog) : attemptLog[i] = "stream" =>
       /\ i = Len(attemptLog)
       /\ retryPc = "returned"
  /\ Len(waits) = Min(attempts, RETRY_COUNT - 1)
  /\ \A i \in 1..Len(waits) : waits[i] = 1000 * i
  /\ retryPc = "returned" =>
       chatResult = << "stream", Len(attemptLog) >>
  /\ retryPc = "threw" =>
       /\ Len(attemptLog) = RETRY_COUNT
       /\ Failures = 1..RETRY_COUNT
       /\ chatResult = << "error", attemptLog[RETRY_COUNT] >>

\* C28: AdvancedAgent.chat always terminates after at most retryCount (3)
\* attempts: it returns the stream of the first successful attempt without
\* attempting again, waits 1000 x attempts ms after each failed attempt
\* that is not the last, and after the third consecutive failure rethrows
\* that attempt's error.
C28_RetryTerminates ==
  /\ []RetryBounded
  /\ (retryPc \in {"try", "delay"}) ~> (retryPc \in {"returned", "threw"})

\* C28 witness: a call returned the stream of its third attempt after
\* delays of 1000 and 2000 ms, and the call before it threw.
C28_Witness ==
  /\ chats = 2
  /\ retryPc = "returned"
  /\ attemptLog = << "timeout", "rate limit", "stream" >>
  /\ waits = << 1000, 2000 >>


\* ------------------------------------------------------------------ C29
\* The accepted requests of a user in the window of RateWindow ms that
\* ends at time t.
InWindow(userId, t) ==
  { i \in 1..Len(accepted[userId]) :
      /\ accepted[userId][i] <= t
      /\ t - accepted[userId][i] < RateWindow }

\* C29: checkRateLimit accepts at most the limit of requests per user in
\* any window: a request is rejected, and not recorded, exactly when the
\* user already has that many accepted requests younger than the window,
\* and the requests of one user never count against another user.
C29_LimitPerUserPerWindow ==
  /\ [](\A userId \in Users : \A t \in 0..MaxClock :
          Cardinality(InWindow(userId, t)) <= RateLimit)
  /\ [][lastCheck' # lastCheck =>
          LET userId == lastCheck'.userId
          IN /\ lastCheck'.young = Young(userId, clock)
             /\ lastCheck'.allowed <=> Young(userId, clock) < RateLimit
             /\ ~lastCheck'.allowed =>
                  (accepted' = accepted /\ rateLimiter' = rateLimiter)
             /\ lastCheck'.allowed =>
                  accepted'[userId] = Append(accepted[userId], clock)
             /\ \A other \in Users \ {userId} :
                  /\ accepted'[other] = accepted[other]
                  /\ rateLimiter'[other] = rateLimiter[other]]_allVars

\* C29 witness: ann was rejected at the limit while bob, with fewer young
\* requests, had been accepted, and ann has requests older than the window.
C29_Witness ==
  /\ lastCheck.userId = "ann"
  /\ ~lastCheck.allowed
  /\ Len(accepted["ann"]) > RateLimit
  /\ Len(accepted["bob"]) = 1
  /\ accepted["bob"][1] = accepted["ann"][Len(accepted["ann"])]


\* ------------------------------------------------------------------ C30
\* The keys a Map holds.
KeySet(map) == { map[i][1] : i \in 1..Len(map) }

\* C30: after every store call the map holds at most MAX_SIZE entries;
\* the entries evicted are the oldest-inserted keys, and the key just
\* stored is still retrievable, with the value stored.
C30_BoundedOldestEvicted ==
  /\ [](/\ Len(memory) <= MAX_SIZE
        /\ Cardinality(KeySet(memory)) = Len(memory)
        /\ lastStored # NoStoreCall =>
             Retrieve(memory, lastStored.key) = lastStored.value)
  /\ [][\A gone \in KeySet(memory) \ KeySet(memory') :
          /\ Len(memory') = MAX_SIZE
          /\ \A kept \in KeySet(memory') :
               insertedAt[gone] < insertedAt'[kept]]_allVars

\* C30 witness: the map was full and the store of a new key has evicted
\* the key inserted first; the key inserted second and the new key remain.
C30_Witness ==
  /\ Len(memory) = MAX_SIZE
  /\ lastStored.key = "k3"
  /\ ~HasKey(memory, "k1")
  /\ insertedAt["k2"] = 2
  /\ insertedAt["k3"] = MaxStore
  /\ storeCalls = MaxStore
  /\ storing = {}

====
